---- MODULE Spec2Model ----
(***************************************************************************)
(* A state-machine model of the angular-sheet grid widget: the Sheet Data  *)
(* Store, the Undo Snapshot Stack, the Interaction State, the Event        *)
(* Router, the render scheduler's dirty/pending flags with the painter's   *)
(* hit-area registry, and the Clipboard Codec with the host clipboard's    *)
(* asynchronous read/write.                                                *)
(*                                                                         *)
(* Coordinates (rows, columns, pixel offsets) are 0-based as in the code;  *)
(* TLA+ sequences are 1-based, so cell (r, c) is cells[r + 1][c + 1].      *)
(* A cell's text is a sequence of one-character strings.                   *)
(***************************************************************************)
EXTENDS Integers, Sequences, FiniteSets, TLC

VARIABLES
    sheetData,          \* DataService.sheetData.value
    historyStack,       \* UndoRedoService.historyStack
    selection,          \* StateService.selectionState
    copyHighlight,      \* StateService.copyHighlightState
    activeCell,         \* StateService.activeCellState (position of the Cell)
    input,              \* StateService.inputState
    scrollPosition,     \* StateService.scrollState
    showMarchingAnts,   \* StateService.marchingAntsState
    contextMenu,        \* StateService.contextMenuState
    mouseMode,          \* StateService.mouseModeState
    resizeState,        \* StateService.resizeState
    dragFillState,      \* StateService.dragFillState
    currentCursorStyle, \* EventService.currentCursorStyle
    buttonHitAreas,     \* RenderService.buttonHitAreas
    dragHandleArea,     \* RenderService.dragHandleArea
    hoverState,         \* RenderService.currentHoverPoint / hoveredCellCoords
    isDirty,            \* RenderService.isDirty
    renderPending,      \* RenderService.renderPending
    sinceRender,        \* performance.now() - lastRenderTime, up to minRenderInterval
    clipboardText,      \* the host clipboard's text
    pendingOps,         \* outstanding navigator.clipboard promises
    callbackRuns,       \* hit-area callbacks invoked by the last handler
    emitted,            \* the last handler called emitSheetChanges
    threw,              \* the last handler let an exception escape
    painted,            \* what the canvas shows, and the frames the last handler rendered
    shell,              \* SheetComponent / RenderService wiring, cell indices, queued render callbacks
    styledCell,         \* one Cell object: its flags and derived styles
    animation,          \* AnimationService fields and the host's frame queue
    sibling,            \* a second SheetComponent on the page: its own services' state
    events,             \* the most recent events handled, newest last
    steps               \* number of events handled so far

vars == <<sheetData, historyStack, selection, copyHighlight, activeCell, input,
          scrollPosition, showMarchingAnts, contextMenu, mouseMode, resizeState,
          dragFillState, currentCursorStyle, buttonHitAreas, dragHandleArea,
          hoverState, isDirty, renderPending, sinceRender, clipboardText,
          pendingOps, callbackRuns, emitted, threw, painted, shell, styledCell,
          animation, sibling, events, steps>>

-----------------------------------------------------------------------------
(* Bounds of the model *)

\* the number of events each specification follows a run for
MaxUndoSteps == 3
MaxRoundSteps == 5
MaxClipSteps == 5
MaxKeySteps == 3
MaxResizeSteps == 4
MaxDragSteps == 9
MaxLayoutSteps == 2
MaxFillSteps == 6
MaxLifeSteps == 5
MaxCellSteps == 4
MaxStackSteps == 4
MaxPaintSteps == 4
MaxAnimSteps == 6
MaxRenderSteps == 5
MaxEdgeSteps == 4
MaxResetSteps == 4
MaxEscSteps == 5
MaxRegSteps == 5

-----------------------------------------------------------------------------
(* Characters and cell values *)

TAB == "TAB"
NL == "NL"
QUOTE == "QUOTE"
COMMA == ","
SPACE == " "

Min(a, b) == IF a < b THEN a ELSE b
Max(a, b) == IF a > b THEN a ELSE b

None == <<>>
Some(v) == <<v>>
IsSome(o) == o # <<>>
Get(o) == o[1]

Null == [type |-> "null", text |-> <<>>]
Undefined == [type |-> "undefined", text |-> <<>>]
Str(t) == [type |-> "string", text |-> t]
Num(t) == [type |-> "number", text |-> t]
Bool(t) == [type |-> "boolean", text |-> t]
Date(t) == [type |-> "date", text |-> t]

\* value?.toString() ?? ''
ToText(v) == IF v.type \in {"null", "undefined"} THEN <<>> ELSE v.text

\* value ?? ''
OrEmpty(v) == IF v.type \in {"null", "undefined"} THEN Str(<<>>) ELSE v

\* JSON.parse(JSON.stringify(value)): a Date comes back as its ISO string
JSONValue(v) == IF v.type = "date" THEN Str(v.text) ELSE v

-----------------------------------------------------------------------------
(* Sheet *)

NumRows(sheet) == Len(sheet.rows)
NumCols(sheet) == Len(sheet.columns)

InSheet(sheet, r, c) == r >= 0 /\ r < NumRows(sheet) /\ c >= 0 /\ c < NumCols(sheet)

CellAt(sheet, r, c) == sheet.cells[r + 1][c + 1]

SetCell(cells, r, c, v) == [cells EXCEPT ![r + 1][c + 1] = v]

Pos(r, c) == [row |-> r, col |-> c]

Range(r1, c1, r2, c2) == [start |-> Pos(r1, c1), end |-> Pos(r2, c2)]

NoSelection == Range(-1, -1, -1, -1)

\* getAccumulatedWidth / getAccumulatedHeight: sum of the sizes of [0, upTo)
RECURSIVE SumSizes(_, _)
SumSizes(sizes, upTo) ==
    IF upTo <= 0 \/ Len(sizes) = 0 THEN 0
    ELSE IF upTo > Len(sizes) THEN SumSizes(sizes, Len(sizes))
    ELSE sizes[upTo] + SumSizes(sizes, upTo - 1)

getAccumulatedWidth(columns, upTo) == SumSizes(columns, upTo)
getAccumulatedHeight(rows, upTo) == SumSizes(rows, upTo)

-----------------------------------------------------------------------------
(* Undo Snapshot Stack *)

\* cloneSheet: JSON.parse(JSON.stringify(sheet)); functions (custom renderers)
\* are dropped by JSON, values go through JSONValue.
cloneSheet(sheet) ==
    [cells |-> [r \in 1..Len(sheet.cells) |->
                  [c \in 1..Len(sheet.cells[r]) |-> JSONValue(sheet.cells[r][c])]],
     columns |-> sheet.columns,
     rows |-> sheet.rows]

\* captureSheetState: push a clone
captureSheetState(stack, sheet) == Append(stack, cloneSheet(sheet))

\* undo(): the popped snapshot (None when the stack is empty) and the rest
undoPop(stack) ==
    IF Len(stack) = 0 THEN [restored |-> None, stack |-> stack]
    ELSE [restored |-> Some(stack[Len(stack)]),
          stack |-> SubSeq(stack, 1, Len(stack) - 1)]

-----------------------------------------------------------------------------
(* Sheet Data Store *)

Scalar(v) == [kind |-> "scalar", value |-> v]
Block(rows) == [kind |-> "block", rows |-> rows]

\* The value one visited cell takes in the loop of updateCellValues, for a
\* 2D input: input[row - rowStart][col - columnStart] ?? ''.
blockCellValue(inp, dr, dc) ==
    IF dc + 1 <= Len(inp.rows[dr + 1]) THEN OrEmpty(inp.rows[dr + 1][dc + 1])
    ELSE Str(<<>>)

\* updateCellValues(rowStart, columnStart, input, recordUndo).
\* Returns the sheet and stack it leaves, whether it emitted the change
\* notification and whether it threw (a TypeError of the JS runtime):
\*  - input[0].length of an empty 2D input throws before anything is done;
\*  - typeof input !== 'object' is false for null and for a Date, and such a
\*    scalar is then indexed like a 2D array, which throws at the first
\*    existing target cell;
\*  - currentSheet.cells[row][col] throws when cells[row] does not exist and
\*    yields undefined (cell skipped) when only the column does not exist.
updateCellValues(sheet, stack, rowStart, columnStart, inp, recordUndo) ==
    IF inp.kind = "block" /\ Len(inp.rows) = 0
    THEN [sheet |-> sheet, stack |-> stack, emitted |-> FALSE, threw |-> TRUE]
    ELSE
    LET isArray == inp.kind = "block"
        rowEnd == IF isArray THEN rowStart + Len(inp.rows) - 1 ELSE rowStart
        columnEnd == IF isArray THEN columnStart + Len(inp.rows[1]) - 1
                     ELSE columnStart
        isSingleValue == ~isArray /\ inp.value.type \notin {"null", "date"}
        stack1 == IF recordUndo THEN captureSheetState(stack, sheet) ELSE stack
        visitsAny == rowStart <= rowEnd /\ columnStart <= columnEnd
        badRows == {r \in rowStart..rowEnd : r < 0 \/ r >= NumRows(sheet)}
        firstBad == IF badRows = {} THEN rowEnd + 1
                    ELSE CHOOSE r \in badRows : \A q \in badRows : r <= q
        \* a scalar that is an object throws at the first cell that exists
        objectScalar == ~isArray /\ ~isSingleValue
        throwsOnCell == objectScalar /\ InSheet(sheet, rowStart, columnStart)
        written(r, c) == /\ r >= rowStart /\ r < firstBad
                         /\ c >= columnStart /\ c <= columnEnd
                         /\ ~objectScalar
        newCells == [r \in 1..Len(sheet.cells) |->
                      [c \in 1..Len(sheet.cells[r]) |->
                         IF written(r - 1, c - 1)
                         THEN IF isSingleValue THEN inp.value
                              ELSE blockCellValue(inp, r - 1 - rowStart,
                                                  c - 1 - columnStart)
                         ELSE sheet.cells[r][c]]]
        didThrow == visitsAny /\ (badRows # {} \/ throwsOnCell)
    IN [sheet |-> [sheet EXCEPT !.cells = newCells],
        stack |-> stack1,
        emitted |-> ~didThrow,
        threw |-> didThrow]

-----------------------------------------------------------------------------
(* Interaction State (StateService) *)

defaultCellHeight == 20
defaultCellWidth == 50

DEFAULT == "DEFAULT"
SELECTING_CELLS == "SELECTING_CELLS"
RESIZING_COLUMN == "RESIZING_COLUMN"
RESIZING_ROW == "RESIZING_ROW"
DRAG_FILL == "DRAG_FILL"

InitialSelection == Range(-1, -1, 0, 0)

InitialInput ==
    [top |-> -1, left |-> -1, width |-> defaultCellWidth,
     height |-> defaultCellHeight, value |-> <<>>, disabled |-> TRUE]

InitialResizeState ==
    [resizingRowIndex |-> None, resizingColumnIndex |-> None,
     originalSize |-> None, startPointerPos |-> None]

InitialDragFillState ==
    [isDragHandleHovered |-> FALSE, isDragging |-> FALSE,
     previewStart |-> None, previewEnd |-> None]

InitialContextMenu == [visible |-> FALSE, position |-> [x |-> 0, y |-> 0]]

\* The program state as one record, so that a handler is the composition of
\* the calls it makes, in the order of the code.
Cur ==
    [sheetData |-> sheetData, historyStack |-> historyStack,
     selection |-> selection, copyHighlight |-> copyHighlight,
     activeCell |-> activeCell, input |-> input,
     scrollPosition |-> scrollPosition, showMarchingAnts |-> showMarchingAnts,
     contextMenu |-> contextMenu, mouseMode |-> mouseMode,
     resizeState |-> resizeState, dragFillState |-> dragFillState,
     currentCursorStyle |-> currentCursorStyle,
     buttonHitAreas |-> buttonHitAreas, dragHandleArea |-> dragHandleArea,
     hoverState |-> hoverState,
     isDirty |-> isDirty, renderPending |-> renderPending,
     sinceRender |-> sinceRender,
     clipboardText |-> clipboardText, pendingOps |-> pendingOps,
     painted |-> [painted EXCEPT !.frameRendered = 0], shell |-> shell, styledCell |-> styledCell,
     animation |-> animation,
     callbackRuns |-> 0, emitted |-> FALSE, threw |-> FALSE]

\* the services a SheetComponent provides for itself, and the two
\* it reaches outside itself: the root UndoRedoService and the clipboard
CommitWidget(w) ==
    /\ sheetData' = w.sheetData
    /\ historyStack' = w.historyStack
    /\ selection' = w.selection
    /\ copyHighlight' = w.copyHighlight
    /\ activeCell' = w.activeCell
    /\ input' = w.input
    /\ scrollPosition' = w.scrollPosition
    /\ showMarchingAnts' = w.showMarchingAnts
    /\ contextMenu' = w.contextMenu
    /\ mouseMode' = w.mouseMode
    /\ resizeState' = w.resizeState
    /\ dragFillState' = w.dragFillState
    /\ currentCursorStyle' = w.currentCursorStyle
    /\ buttonHitAreas' = w.buttonHitAreas
    /\ dragHandleArea' = w.dragHandleArea
    /\ hoverState' = w.hoverState
    /\ isDirty' = w.isDirty
    /\ renderPending' = w.renderPending
    /\ sinceRender' = w.sinceRender
    /\ clipboardText' = w.clipboardText
    /\ pendingOps' = w.pendingOps
    /\ callbackRuns' = w.callbackRuns
    /\ emitted' = w.emitted
    /\ threw' = w.threw
    /\ animation' = w.animation
    /\ painted' = w.painted
    /\ shell' = w.shell
    /\ styledCell' = w.styledCell

Commit(w) == CommitWidget(w) /\ sibling' = sibling

setMouseMode(w, mode) == [w EXCEPT !.mouseMode = mode]

updateSelection(w, sel) == [w EXCEPT !.selection = sel]

updateSelectionEnd(w, e) == [w EXCEPT !.selection.end = e]

updateCopyHighlight(w, range) == [w EXCEPT !.copyHighlight = range]

updateActiveCell(w, cell) == [w EXCEPT !.activeCell = cell]

setMarchingAnts(w, show) == [w EXCEPT !.showMarchingAnts = show]

\* positionInputAt(row, col, sheet)
positionInputAt(w, row, col) ==
    LET sheet == w.sheetData
    IN [w EXCEPT
          !.input.left = getAccumulatedWidth(sheet.columns, col) - w.scrollPosition.x,
          !.input.top = getAccumulatedHeight(sheet.rows, row) - w.scrollPosition.y,
          !.input.width = sheet.columns[col + 1],
          !.input.height = sheet.rows[row + 1]]

\* Math.min / Math.max normalisation of a range, as every consumer does it
Normalize(range) ==
    Range(Min(range.start.row, range.end.row), Min(range.start.col, range.end.col),
          Max(range.start.row, range.end.row), Max(range.start.col, range.end.col))

-----------------------------------------------------------------------------
(* Render Scheduler and Painter (RenderService) *)

ViewportWidth == 1000
ViewportHeight == 1000

handleRadius == 4
buttonPadding == 4

clipRegion(w) ==
    [left |-> w.scrollPosition.x, right |-> w.scrollPosition.x + ViewportWidth,
     top |-> w.scrollPosition.y, bottom |-> w.scrollPosition.y + ViewportHeight]

\* the hit area a button renderer returns for the cell painted at (x, y)
buttonArea(sheet, r, c) ==
    LET x == getAccumulatedWidth(sheet.columns, c)
        y == getAccumulatedHeight(sheet.rows, r)
    IN [cellId |-> <<x, y>>,
        x |-> x + buttonPadding, y |-> y + buttonPadding,
        width |-> sheet.columns[c + 1] - buttonPadding * 2,
        height |-> sheet.rows[r + 1] - buttonPadding * 2,
        onClick |-> sheet.renderers[r + 1][c + 1] = "button"]

\* drawCells: the hit areas registered by one paint, in row-major order;
\* bands fully outside the clip region are skipped.
RECURSIVE drawCellsFrom(_, _, _)
drawCellsFrom(sheet, clip, k) ==
    IF k >= NumRows(sheet) * NumCols(sheet) THEN <<>>
    ELSE LET r == k \div NumCols(sheet)
             c == k % NumCols(sheet)
             rowTop == getAccumulatedHeight(sheet.rows, r)
             rowBottom == rowTop + sheet.rows[r + 1]
             colLeft == getAccumulatedWidth(sheet.columns, c)
             colRight == colLeft + sheet.columns[c + 1]
             skipped == \/ rowBottom < clip.top \/ rowTop > clip.bottom
                        \/ colRight < clip.left \/ colLeft > clip.right
             rest == drawCellsFrom(sheet, clip, k + 1)
         IN IF ~skipped /\ sheet.renderers[r + 1][c + 1] # "none"
            THEN <<buttonArea(sheet, r, c)>> \o rest
            ELSE rest

drawCells(sheet, clip) == drawCellsFrom(sheet, clip, 0)

\* drawHighlight(selection, false): the drag handle's hit rectangle, recorded
\* when the selection is painted; otherwise the previous one is kept.
drawHighlightHandle(w, clip) ==
    LET sheet == w.sheetData
        hl == w.selection
        n == Normalize(hl)
        highlightY == getAccumulatedHeight(sheet.rows, n.start.row)
        highlightX == getAccumulatedWidth(sheet.columns, n.start.col)
        highlightHeight == getAccumulatedHeight(sheet.rows, n.end.row + 1) - highlightY
        highlightWidth == getAccumulatedWidth(sheet.columns, n.end.col + 1) - highlightX
        selRight == highlightX + highlightWidth
        selBottom == highlightY + highlightHeight
    IN IF hl.start.row < 0 THEN w.dragHandleArea
       ELSE IF \/ selRight <= clip.left \/ highlightX >= clip.right
               \/ selBottom <= clip.top \/ highlightY >= clip.bottom
       THEN w.dragHandleArea
       ELSE Some([x |-> highlightX + highlightWidth - handleRadius,
                  y |-> highlightY + highlightHeight - handleRadius,
                  width |-> handleRadius * 2, height |-> handleRadius * 2])

\* drawSheet(ctx, clipRegion): nothing is drawn without a sheet
drawSheet(w, clip) ==
    IF ~w.shell.hasSheet THEN w
    ELSE [w EXCEPT !.buttonHitAreas = @ \o drawCells(w.sheetData, clip),
                   !.dragHandleArea = drawHighlightHandle(w, clip),
                   !.painted = [cells |-> w.sheetData.cells,
                                selection |-> w.selection,
                                frameRendered |-> w.painted.frameRendered]]

\* RenderService.minRenderInterval, in ms
minRenderInterval == 16

\* performRender without its second look at the dirty flag
performRenderUnchecked(w) ==
    IF ~w.shell.canvasSet THEN w
    ELSE [drawSheet([w EXCEPT !.buttonHitAreas = <<>>], clipRegion(w)) EXCEPT
            !.isDirty = FALSE, !.sinceRender = 0,
            !.painted.frameRendered = @ + 1]

\* performRender; a completed frame emits frameRendered
performRender(w) ==
    IF ~w.shell.canvasSet THEN w
    ELSE IF ~w.isDirty /\ ~w.showMarchingAnts THEN w
    ELSE [drawSheet([w EXCEPT !.buttonHitAreas = <<>>], clipRegion(w)) EXCEPT
            !.isDirty = FALSE, !.sinceRender = 0,
            !.painted.frameRendered = @ + 1]

\* requestRender's deferral: window.requestAnimationFrame(callback)
deferRender(w) ==
    [w EXCEPT !.renderPending = TRUE, !.shell.renderCallbacks = @ + 1]

\* requestRender without its look at the pending flag
requestRenderUncoalesced(w) ==
    IF ~w.isDirty /\ ~w.showMarchingAnts THEN w
    ELSE IF w.sinceRender < minRenderInterval THEN deferRender(w)
    ELSE performRender(w)

\* requestRender deferring also at exactly the minimum interval
requestRenderLate(w) ==
    IF w.renderPending THEN w
    ELSE IF ~w.isDirty /\ ~w.showMarchingAnts THEN w
    ELSE IF w.sinceRender <= minRenderInterval THEN deferRender(w)
    ELSE performRender(w)

\* requestRender
requestRender(w) ==
    IF w.renderPending THEN w
    ELSE IF ~w.isDirty /\ ~w.showMarchingAnts THEN w
    ELSE IF w.sinceRender < minRenderInterval THEN deferRender(w)
    ELSE performRender(w)

\* markDirty
markDirty(w) == requestRender([w EXCEPT !.isDirty = TRUE])

\* checkButtonHit(x, y): the first registered area containing the point; its
\* onClick may be undefined.
RECURSIVE firstHit(_, _, _, _)
firstHit(areas, x, y, i) ==
    IF i > Len(areas) THEN None
    ELSE IF /\ x >= areas[i].x /\ x <= areas[i].x + areas[i].width
            /\ y >= areas[i].y /\ y <= areas[i].y + areas[i].height
    THEN Some(areas[i])
    ELSE firstHit(areas, x, y, i + 1)

checkButtonHit(w, x, y) ==
    LET hit == firstHit(w.buttonHitAreas, x, y, 1)
    IN IF IsSome(hit) /\ Get(hit).onClick THEN hit ELSE None

\* emitSheetChanges(sheet), with the component's sheetChanges$ subscription:
\* the host is notified and the render service marked dirty.
emitSheetChanges(w) ==
    IF w.shell.subscribed THEN markDirty([w EXCEPT !.emitted = TRUE])
    ELSE [w EXCEPT !.emitted = TRUE]

\* DataService.updateCellValues as a handler step; a throw leaves the
\* notification out and is recorded for the caller to propagate.
dsUpdateCellValues(w, rowStart, columnStart, inp, recordUndo) ==
    IF ~w.shell.hasSheet /\ (inp.kind = "scalar" \/ Len(inp.rows) > 0) THEN w
    ELSE
    LET res == updateCellValues(w.sheetData, w.historyStack, rowStart,
                                columnStart, inp, recordUndo)
        w1 == [w EXCEPT !.sheetData = res.sheet, !.historyStack = res.stack,
                        !.threw = res.threw]
    IN IF res.emitted THEN emitSheetChanges(w1) ELSE w1

-----------------------------------------------------------------------------
(* Clipboard Codec (ClipboardService): the text interchange format *)

\* String.prototype.split(sep) for a one-character separator: n separators
\* give n + 1 pieces, so the empty string gives one empty piece.
RECURSIVE splitUpTo(_, _, _)
splitUpTo(text, sep, i) ==
    IF i = 0 THEN << <<>> >>
    ELSE LET prev == splitUpTo(text, sep, i - 1)
         IN IF text[i] = sep THEN Append(prev, <<>>)
            ELSE [prev EXCEPT ![Len(prev)] = Append(@, text[i])]

split(text, sep) == splitUpTo(text, sep, Len(text))

includes(text, ch) == \E i \in 1..Len(text) : text[i] = ch

\* cellValue.replace(/\t/g, ' ')
replaceTabs(text) == [i \in 1..Len(text) |-> IF text[i] = TAB THEN SPACE ELSE text[i]]

\* rowValues.join('\t')
RECURSIVE joinTexts(_, _)
joinTexts(texts, sep) ==
    IF Len(texts) = 0 THEN <<>>
    ELSE IF Len(texts) = 1 THEN texts[1]
    ELSE texts[1] \o <<sep>> \o joinTexts(Tail(texts), sep)

\* copy: some addressed cell does not exist, so reading its value throws
\* before the try block (the async function's promise rejects).
copyThrows(sheet, range) ==
    \E r \in range.start.row..range.end.row, c \in range.start.col..range.end.col :
        ~InSheet(sheet, r, c)

\* copy: the TSV text built from the cells of the range
copiedText(sheet, range) ==
    LET rowText(r) ==
            joinTexts([k \in 1..(range.end.col - range.start.col + 1) |->
                         replaceTabs(ToText(CellAt(sheet, r, range.start.col + k - 1)))],
                      TAB)
    IN joinTexts([k \in 1..(range.end.row - range.start.row + 1) |->
                    rowText(range.start.row + k - 1)], NL)

\* parseCSVLine: a quote toggles inQuotes and is dropped; a tab outside
\* quotes ends a field.
RECURSIVE parseCSVUpTo(_, _)
parseCSVUpTo(line, i) ==
    IF i = 0 THEN [result |-> <<>>, current |-> <<>>, inQuotes |-> FALSE]
    ELSE LET st == parseCSVUpTo(line, i - 1)
             char == line[i]
         IN IF char = QUOTE THEN [st EXCEPT !.inQuotes = ~st.inQuotes]
            ELSE IF char = TAB /\ ~st.inQuotes
            THEN [st EXCEPT !.result = Append(st.result, st.current),
                            !.current = <<>>]
            ELSE [st EXCEPT !.current = Append(st.current, char)]

parseCSVLine(line) ==
    LET st == parseCSVUpTo(line, Len(line))
    IN Append(st.result, st.current)

\* paste: the parsed rows of fields (copiedData)
parseLine(line) ==
    IF includes(line, QUOTE) /\ includes(line, COMMA) THEN parseCSVLine(line)
    ELSE split(line, TAB)

parseClipboard(text) ==
    LET lines == split(text, NL)
    IN [k \in 1..Len(lines) |-> parseLine(lines[k])]

MaxOf(S) == CHOOSE m \in S : \A x \in S : x <= m

copyWidthOf(copiedData) == MaxOf({Len(copiedData[k]) : k \in 1..Len(copiedData)})

\* paste: the width and height of the rectangle to write
pasteDims(copiedData, range) ==
    LET copyHeight == Len(copiedData)
        copyWidth == copyWidthOf(copiedData)
        selectionHeight == range.end.row - range.start.row + 1
        selectionWidth == range.end.col - range.start.col + 1
    IN IF selectionHeight = 1 /\ selectionWidth = 1
       THEN [width |-> copyWidth, height |-> copyHeight]
       ELSE [width |-> selectionWidth, height |-> selectionHeight]

\* a paste that repeats the block's last row and column instead of wrapping
tiledFieldClamped(copiedData, row, col) ==
    LET copyRow == Min(row, Len(copiedData) - 1)
        copyCol == Min(col, copyWidthOf(copiedData) - 1)
        src == copiedData[copyRow + 1]
    IN IF copyCol + 1 <= Len(src) THEN Str(src[copyCol + 1]) ELSE Undefined

\* paste: copiedData[row % copyHeight][col % copyWidth], undefined when the
\* row has no such field
tiledField(copiedData, row, col) ==
    LET copyRow == row % Len(copiedData)
        copyCol == col % copyWidthOf(copiedData)
        src == copiedData[copyRow + 1]
    IN IF copyCol + 1 <= Len(src) THEN Str(src[copyCol + 1]) ELSE Undefined

\* paste: pasteData
pasteData(copiedData, dims) ==
    [row \in 1..Max(dims.height, 0) |->
        [col \in 1..Max(dims.width, 0) |-> tiledField(copiedData, row - 1, col - 1)]]

-----------------------------------------------------------------------------
(* Event Router (EventService): pointer input *)

boundaryThreshold == 3
resizeFloor == 10

Abs(n) == IF n < 0 THEN -n ELSE n

\* a band search that compares the offset with each size alone
RECURSIVE bandFromUnaccumulated(_, _, _, _)
bandFromUnaccumulated(sizes, offset, i, accumulated) ==
    IF i >= Len(sizes) THEN -1
    ELSE IF offset < sizes[i + 1] THEN i
    ELSE bandFromUnaccumulated(sizes, offset, i + 1, accumulated)

\* the first band whose right/bottom edge lies beyond the offset, else -1
RECURSIVE bandFrom(_, _, _, _)
bandFrom(sizes, offset, i, accumulated) ==
    IF i >= Len(sizes) THEN -1
    ELSE IF offset < accumulated + sizes[i + 1] THEN i
    ELSE bandFrom(sizes, offset, i + 1, accumulated + sizes[i + 1])

\* getCellFromOffset
getCellFromOffset(offsetX, offsetY, sheet) ==
    IF offsetX < 0 \/ offsetY < 0 THEN [rowIndex |-> -1, colIndex |-> -1]
    ELSE [rowIndex |-> bandFrom(sheet.rows, offsetY, 0, 0),
          colIndex |-> bandFrom(sheet.columns, offsetX, 0, 0)]

\* the loop of getColumnBoundaryIndex / getRowBoundaryIndex
RECURSIVE boundaryFrom(_, _, _, _)
boundaryFrom(sizes, offset, i, accumulated) ==
    IF i >= Len(sizes) THEN -1
    ELSE LET nearEdge == accumulated
             farEdge == accumulated + sizes[i + 1]
         IN IF Abs(offset - nearEdge) < boundaryThreshold /\ i > 0 THEN i - 1
            ELSE IF Abs(offset - farEdge) < boundaryThreshold THEN i
            ELSE IF offset < farEdge THEN -1
            ELSE boundaryFrom(sizes, offset, i + 1, farEdge)

getColumnBoundaryIndex(ev, sheet) ==
    IF ev.offsetX < 0 THEN -1 ELSE boundaryFrom(sheet.columns, ev.offsetX, 0, 0)

getRowBoundaryIndex(ev, sheet) ==
    IF ev.offsetY < 0 THEN -1 ELSE boundaryFrom(sheet.rows, ev.offsetY, 0, 0)

isInTopHeaderRow(ev) ==
    /\ ev.offsetY >= 0 /\ ev.offsetY <= defaultCellHeight
    /\ ev.offsetX > defaultCellWidth

isInLeftHeaderCol(ev) ==
    /\ ev.offsetX >= 0 /\ ev.offsetX <= defaultCellWidth
    /\ ev.offsetY > defaultCellHeight

\* RenderService.setHoverPoint(point, cellCoords); None stands for null
setHoverPoint(w, point, cellCoords) ==
    LET cur == w.hoverState
        cellChanged == cellCoords # cur.cell
        pointChanged == /\ IsSome(point) /\ IsSome(cur.point)
                        /\ \/ Abs(Get(point).x - Get(cur.point).x) > 1
                           \/ Abs(Get(point).y - Get(cur.point).y) > 1
        nullTransition == \/ IsSome(point) # IsSome(cur.point)
                          \/ IsSome(cellCoords) # IsSome(cur.cell)
    IN IF ~IsSome(point) /\ ~IsSome(cellCoords) /\ ~IsSome(cur.point) /\ ~IsSome(cur.cell)
       THEN w
       ELSE IF cellChanged \/ pointChanged \/ nullTransition
       THEN markDirty([w EXCEPT !.hoverState = [point |-> point, cell |-> cellCoords]])
       ELSE w

\* the selection branch of onMouseDown
selectCellAt(w, ev) ==
    LET sheet == w.sheetData
        w1 == setMouseMode(w, SELECTING_CELLS)
        cell == getCellFromOffset(ev.offsetX, ev.offsetY, sheet)
        rowIndex == cell.rowIndex
        colIndex == cell.colIndex
    IN IF rowIndex < 0 \/ colIndex < 0 THEN w1
       ELSE IF rowIndex >= NumRows(sheet) \/ colIndex >= NumCols(sheet) THEN w1
       ELSE LET w2 == updateActiveCell(w1, Some(Pos(rowIndex, colIndex)))
                w3 == updateSelection(w2, Range(rowIndex, colIndex, rowIndex, colIndex))
                w4 == positionInputAt(w3, rowIndex, colIndex)
            IN [w4 EXCEPT !.input.value = ToText(CellAt(sheet, rowIndex, colIndex))]

\* the resize branches of onMouseDown; with a resize cursor and no boundary
\* under the pointer nothing more is done
startColumnResize(w, ev) ==
    LET colIndex == getColumnBoundaryIndex(ev, w.sheetData)
    IN IF colIndex = -1 THEN w
       ELSE [w EXCEPT !.input.disabled = TRUE,
                      !.mouseMode = RESIZING_COLUMN,
                      !.resizeState.resizingColumnIndex = Some(colIndex),
                      !.resizeState.originalSize = Some(w.sheetData.columns[colIndex + 1]),
                      !.resizeState.startPointerPos = Some(ev.clientX)]

startRowResize(w, ev) ==
    LET rowIndex == getRowBoundaryIndex(ev, w.sheetData)
    IN IF rowIndex = -1 THEN w
       ELSE [w EXCEPT !.input.disabled = TRUE,
                      !.mouseMode = RESIZING_ROW,
                      !.resizeState.resizingRowIndex = Some(rowIndex),
                      !.resizeState.originalSize = Some(w.sheetData.rows[rowIndex + 1]),
                      !.resizeState.startPointerPos = Some(ev.clientY)]

\* EventService.onMouseDown
onMouseDown(w, ev) ==
    LET w0 == [w EXCEPT !.contextMenu.visible = FALSE]
        onClick == checkButtonHit(w0, ev.offsetX, ev.offsetY)
    IN IF w0.dragFillState.isDragHandleHovered
       THEN [w0 EXCEPT !.mouseMode = DRAG_FILL,
                       !.dragFillState.isDragging = TRUE,
                       !.dragFillState.previewStart = Some(w0.selection.start),
                       !.dragFillState.previewEnd = Some(w0.selection.end)]
       ELSE IF IsSome(onClick)
       THEN requestRender([w0 EXCEPT !.callbackRuns = @ + 1])
       ELSE IF w0.currentCursorStyle = "col-resize" THEN startColumnResize(w0, ev)
       ELSE IF w0.currentCursorStyle = "row-resize" THEN startRowResize(w0, ev)
       ELSE selectCellAt(w0, ev)

\* a resize that clamps to the floor instead of rejecting the move
handleResizeDragClamped(w, ev) ==
    LET rs == w.resizeState
        orig == IF IsSome(rs.originalSize) THEN Get(rs.originalSize) ELSE 0
        start == IF IsSome(rs.startPointerPos) THEN Get(rs.startPointerPos) ELSE 0
    IN IF w.mouseMode = RESIZING_COLUMN /\ IsSome(rs.resizingColumnIndex)
       THEN [w EXCEPT !.sheetData.columns[Get(rs.resizingColumnIndex) + 1] =
                         Max(orig + (ev.clientX - start), resizeFloor)]
       ELSE IF w.mouseMode = RESIZING_ROW /\ IsSome(rs.resizingRowIndex)
       THEN [w EXCEPT !.sheetData.rows[Get(rs.resizingRowIndex) + 1] =
                         Max(orig + (ev.clientY - start), resizeFloor)]
       ELSE w

\* a resize that adds the pointer's travel to the current size
handleResizeDragIncremental(w, ev) ==
    LET rs == w.resizeState
        start == IF IsSome(rs.startPointerPos) THEN Get(rs.startPointerPos) ELSE 0
    IN IF w.mouseMode = RESIZING_COLUMN /\ IsSome(rs.resizingColumnIndex)
       THEN LET colIndex == Get(rs.resizingColumnIndex)
                newWidth == w.sheetData.columns[colIndex + 1] + (ev.clientX - start)
            IN IF newWidth > resizeFloor
               THEN [w EXCEPT !.sheetData.columns[colIndex + 1] = newWidth]
               ELSE w
       ELSE IF w.mouseMode = RESIZING_ROW /\ IsSome(rs.resizingRowIndex)
       THEN LET rowIndex == Get(rs.resizingRowIndex)
                newHeight == w.sheetData.rows[rowIndex + 1] + (ev.clientY - start)
            IN IF newHeight > resizeFloor
               THEN [w EXCEPT !.sheetData.rows[rowIndex + 1] = newHeight]
               ELSE w
       ELSE w

\* handleResizeDrag
handleResizeDrag(w, ev) ==
    LET rs == w.resizeState
        orig == IF IsSome(rs.originalSize) THEN Get(rs.originalSize) ELSE 0
        start == IF IsSome(rs.startPointerPos) THEN Get(rs.startPointerPos) ELSE 0
    IN IF w.mouseMode = RESIZING_COLUMN /\ IsSome(rs.resizingColumnIndex)
       THEN LET colIndex == Get(rs.resizingColumnIndex)
                newWidth == orig + (ev.clientX - start)
            IN IF newWidth > resizeFloor
               THEN LET w1 == [w EXCEPT !.sheetData.columns[colIndex + 1] = newWidth]
                    IN IF IsSome(w.activeCell) /\ Get(w.activeCell).col = colIndex
                       THEN [w1 EXCEPT !.input.width = newWidth - 4]
                       ELSE w1
               ELSE w
       ELSE IF w.mouseMode = RESIZING_ROW /\ IsSome(rs.resizingRowIndex)
       THEN LET rowIndex == Get(rs.resizingRowIndex)
                newHeight == orig + (ev.clientY - start)
            IN IF newHeight > resizeFloor
               THEN LET w1 == [w EXCEPT !.sheetData.rows[rowIndex + 1] = newHeight]
                    IN IF IsSome(w.activeCell) /\ Get(w.activeCell).row = rowIndex
                       THEN [w1 EXCEPT !.input.height = newHeight - 4]
                       ELSE w1
               ELSE w
       ELSE w

\* onMouseMove, after the drag-handle and DRAG_FILL branches
moveOverGrid(w, ev) ==
    LET sheet == w.sheetData
        cell == getCellFromOffset(ev.offsetX, ev.offsetY, sheet)
        inGrid == /\ cell.rowIndex >= 0 /\ cell.colIndex >= 0
                  /\ cell.rowIndex < NumRows(sheet) /\ cell.colIndex < NumCols(sheet)
        w1 == IF inGrid
              THEN setHoverPoint(w,
                     Some([x |-> ev.offsetX - getAccumulatedWidth(sheet.columns, cell.colIndex),
                           y |-> ev.offsetY - getAccumulatedHeight(sheet.rows, cell.rowIndex)]),
                     Some(Pos(cell.rowIndex, cell.colIndex)))
              ELSE setHoverPoint(w, None, None)
        colIndex == getColumnBoundaryIndex(ev, sheet)
        rowIndex == getRowBoundaryIndex(ev, sheet)
    IN IF w1.mouseMode \in {RESIZING_COLUMN, RESIZING_ROW}
       THEN handleResizeDrag(w1, ev)
       ELSE IF w1.mouseMode = SELECTING_CELLS /\ ev.buttons = 1
       THEN IF inGrid
            THEN updateSelectionEnd(w1, Pos(cell.rowIndex, cell.colIndex))
            ELSE w1
       ELSE IF ev.buttons = 0
       THEN IF colIndex # -1 /\ isInTopHeaderRow(ev)
            THEN [w1 EXCEPT !.currentCursorStyle = "col-resize"]
            ELSE IF rowIndex # -1 /\ isInLeftHeaderCol(ev)
            THEN [w1 EXCEPT !.currentCursorStyle = "row-resize"]
            ELSE IF ~w1.dragFillState.isDragHandleHovered
            THEN [w1 EXCEPT !.currentCursorStyle = "default"]
            ELSE w1
       ELSE w1

inArea(area, x, y) ==
    /\ x >= area.x /\ x <= area.x + area.width
    /\ y >= area.y /\ y <= area.y + area.height

\* EventService.onMouseMove
onMouseMove(w, ev) ==
    LET overHandle == /\ w.mouseMode = DEFAULT /\ IsSome(w.dragHandleArea)
                      /\ inArea(Get(w.dragHandleArea), ev.offsetX, ev.offsetY)
        w1 == IF w.mouseMode = DEFAULT /\ IsSome(w.dragHandleArea)
              THEN [w EXCEPT !.dragFillState.isDragHandleHovered = overHandle]
              ELSE w
        cell == getCellFromOffset(ev.offsetX, ev.offsetY, w.sheetData)
    IN IF overHandle THEN w1
       ELSE IF w1.mouseMode = DRAG_FILL
       THEN IF cell.rowIndex >= 0 /\ cell.colIndex >= 0
            THEN requestRender([w1 EXCEPT !.dragFillState.previewEnd =
                                   Some(Pos(cell.rowIndex, cell.colIndex))])
            ELSE w1
       ELSE moveOverGrid(w1, ev)

-----------------------------------------------------------------------------
(* Clipboard Codec (ClipboardService): the asynchronous operations *)

\* copy(sheet, range) up to its await: the text is built and writeText is
\* called; the continuation runs when the host settles the promise.
copy(w, range) ==
    IF copyThrows(w.sheetData, range) THEN w
    ELSE [w EXCEPT !.pendingOps =
             Append(@, [op |-> "write", data |-> copiedText(w.sheetData, range),
                        range |-> range])]

\* copySelection(sheet)
copySelection(w) == copy(w, Normalize(w.selection))

\* paste(sheet, range) up to its await: readText is called
paste(w, range) ==
    [w EXCEPT !.pendingOps = Append(@, [op |-> "read", range |-> range, fill |-> None])]

\* pasteSelection(sheet)
pasteSelection(w) == paste(w, Normalize(w.selection))

\* copy, highlighting on success whatever is selected by then
copyWrittenOfSelection(w, range) ==
    setMarchingAnts(updateCopyHighlight(w, w.selection), TRUE)

\* copy, after writeText resolved
copyWritten(w, range) == setMarchingAnts(updateCopyHighlight(w, range), TRUE)

\* a paste that writes to whatever is selected when the read completes
pasteTextOfSelection(w, range, text) ==
    IF Len(text) = 0 THEN w
    ELSE LET now == Normalize(w.selection)
             copiedData == parseClipboard(text)
             dims == pasteDims(copiedData, now)
             data == pasteData(copiedData, dims)
             pasteRange == [start |-> now.start,
                            end |-> Pos(now.start.row + dims.height - 1,
                                        now.start.col + dims.width - 1)]
             w1 == dsUpdateCellValues(w, pasteRange.start.row, pasteRange.start.col,
                                      Block(data), TRUE)
         IN IF w1.threw THEN [w1 EXCEPT !.threw = FALSE]
            ELSE requestRender(
                   updateSelection(
                     updateCopyHighlight(setMarchingAnts(w1, FALSE), NoSelection),
                     pasteRange))

\* paste, after readText resolved with text; an exception of the body is
\* caught and logged by paste itself.
pasteText(w, range, text) ==
    IF Len(text) = 0 THEN w
    ELSE LET copiedData == parseClipboard(text)
             dims == pasteDims(copiedData, range)
             data == pasteData(copiedData, dims)
             pasteRange == [start |-> range.start,
                            end |-> Pos(range.start.row + dims.height - 1,
                                        range.start.col + dims.width - 1)]
             w1 == dsUpdateCellValues(w, pasteRange.start.row, pasteRange.start.col,
                                      Block(data), TRUE)
         IN IF w1.threw THEN [w1 EXCEPT !.threw = FALSE]
            ELSE requestRender(
                   updateSelection(
                     updateCopyHighlight(setMarchingAnts(w1, FALSE), NoSelection),
                     pasteRange))

RemoveAt(seq, i) == SubSeq(seq, 1, i - 1) \o SubSeq(seq, i + 1, Len(seq))

-----------------------------------------------------------------------------
(* Event Router (EventService): pointer-up, double-click, keyboard *)

\* The texts of the cells of the normalized selection, row by row (None
\* when the selection leaves the sheet).
selectionTexts(w) ==
    LET n == Normalize(w.selection)
    IN IF copyThrows(w.sheetData, n) THEN None
       ELSE Some([r \in 1..(n.end.row - n.start.row + 1) |->
                    [c \in 1..(n.end.col - n.start.col + 1) |->
                       ToText(CellAt(w.sheetData, n.start.row + r - 1,
                                     n.start.col + c - 1))]])

\* History kept for the analysis only: the read issued by a drag-fill
\* remembers the texts of the selection it is meant to fill with.
fillMark(w, texts) == [w EXCEPT !.pendingOps[Len(w.pendingOps)].fill = texts]

\* EventService.onMouseUp
onMouseUp(w) ==
    IF w.mouseMode = DRAG_FILL
    THEN LET ds == w.dragFillState
             w1 == IF IsSome(ds.previewStart) /\ IsSome(ds.previewEnd)
                   THEN fillMark(paste(copySelection(w),
                                       [start |-> Get(ds.previewStart),
                                        end |-> Get(ds.previewEnd)]),
                                 selectionTexts(w))
                   ELSE w
         IN requestRender([w1 EXCEPT !.mouseMode = DEFAULT,
                                     !.dragFillState.isDragging = FALSE,
                                     !.dragFillState.previewStart = None,
                                     !.dragFillState.previewEnd = None])
    ELSE w

\* SheetComponent.handleMouseUp (document:mouseup)
handleMouseUp(w) ==
    IF w.mouseMode \in {RESIZING_COLUMN, RESIZING_ROW}
    THEN requestRender([w EXCEPT !.mouseMode = DEFAULT])
    ELSE IF w.mouseMode = SELECTING_CELLS THEN [w EXCEPT !.mouseMode = DEFAULT]
    ELSE w

\* DataService.autoFillSelection: captures the sheet, republishes it and
\* notifies; the fill itself is not implemented.
autoFillSelection(w) ==
    emitSheetChanges([w EXCEPT !.historyStack = captureSheetState(@, w.sheetData)])

\* EventService.onDoubleClick
onDoubleClick(w) ==
    IF w.dragFillState.isDragHandleHovered
    THEN LET n == Normalize(w.selection)
             lastRow == NumRows(w.sheetData) - 1
         IN IF n.end.row < lastRow
            THEN updateSelection(autoFillSelection(w),
                                 Range(n.start.row, n.start.col, lastRow, n.end.col))
            ELSE w
    ELSE IF ~IsSome(w.activeCell) THEN w
    ELSE [w EXCEPT !.input.disabled = FALSE]

\* a Delete that records one snapshot for the whole selection
RECURSIVE deleteFromOnce(_, _, _)
deleteFromOnce(w, n, k) ==
    LET width == n.end.col - n.start.col + 1
        height == n.end.row - n.start.row + 1
    IN IF k >= width * height \/ w.threw THEN w
       ELSE deleteFromOnce(dsUpdateCellValues(w, n.start.row + (k \div width),
                                              n.start.col + (k % width),
                                              Scalar(Str(<<>>)), k = 0),
                           n, k + 1)

\* the loop of the Delete branch: one updateCellValues(row, col, '') per
\* cell of the normalized selection, in row-major order, stopping at a throw
RECURSIVE deleteFrom(_, _, _)
deleteFrom(w, n, k) ==
    LET width == n.end.col - n.start.col + 1
        height == n.end.row - n.start.row + 1
    IN IF k >= width * height \/ w.threw THEN w
       ELSE deleteFrom(dsUpdateCellValues(w, n.start.row + (k \div width),
                                          n.start.col + (k % width),
                                          Scalar(Str(<<>>)), TRUE),
                       n, k + 1)

\* handleShiftNavigation
handleShiftNavigation(w, ev) ==
    LET end == w.selection.end
        totalRows == NumRows(w.sheetData)
        totalCols == NumCols(w.sheetData)
        newEnd ==
            IF ev.key = "ArrowUp" /\ end.row > 0 THEN Pos(end.row - 1, end.col)
            ELSE IF ev.key = "ArrowDown" /\ end.row < totalRows - 1
            THEN Pos(end.row + 1, end.col)
            ELSE IF ev.key = "ArrowLeft" /\ end.col > 0 THEN Pos(end.row, end.col - 1)
            ELSE IF ev.key = "ArrowRight" /\ end.col < totalCols - 1
            THEN Pos(end.row, end.col + 1)
            ELSE end
    IN updateSelectionEnd(w, newEnd)

\* sheet.cells[row][col] for a position outside the sheet: a missing row
\* throws at the lookup; a missing column of an existing row yields
\* undefined, which becomes the active cell before positionInputAt throws.
missingCell(w, row) ==
    IF row >= 0 /\ row < NumRows(w.sheetData)
    THEN [updateActiveCell(w, None) EXCEPT !.threw = TRUE]
    ELSE [w EXCEPT !.threw = TRUE]

\* handleNavigation
handleNavigation(w, ev) ==
    LET start == w.selection.start
        totalRows == NumRows(w.sheetData)
        totalCols == NumCols(w.sheetData)
        newPos ==
            IF ev.key = "ArrowUp" /\ start.row > 0 THEN Pos(start.row - 1, start.col)
            ELSE IF ev.key \in {"ArrowDown", "Enter"} /\ start.row < totalRows - 1
            THEN Pos(start.row + 1, start.col)
            ELSE IF ev.key = "ArrowLeft" /\ start.col > 0
            THEN Pos(start.row, start.col - 1)
            ELSE IF ev.key = "ArrowRight" /\ start.col < totalCols - 1
            THEN Pos(start.row, start.col + 1)
            ELSE start
    IN IF ev.key \notin {"ArrowUp", "ArrowDown", "Enter", "ArrowLeft", "ArrowRight"}
       THEN w
       ELSE IF ~InSheet(w.sheetData, newPos.row, newPos.col)
       THEN missingCell(updateSelection(w, [start |-> newPos, end |-> newPos]),
                        newPos.row)
       ELSE LET w1 == updateSelection(w, [start |-> newPos, end |-> newPos])
                w2 == updateActiveCell(w1, Some(newPos))
                w3 == positionInputAt(w2, newPos.row, newPos.col)
            IN [w3 EXCEPT !.input.value =
                   ToText(CellAt(w.sheetData, newPos.row, newPos.col))]

\* an Enter that commits the edit box but stays on the cell
handleEditModeKeysStay(w, ev) ==
    IF ev.key # "Enter" THEN w
    ELSE dsUpdateCellValues(w, w.selection.start.row, w.selection.start.col,
                            Scalar(Str(w.input.value)), TRUE)

\* handleEditModeKeys
handleEditModeKeys(w, ev) ==
    IF ev.key # "Enter" THEN w
    ELSE LET start == w.selection.start
             w1 == dsUpdateCellValues(w, start.row, start.col,
                                      Scalar(Str(w.input.value)), TRUE)
             nextRow == start.row + 1
         IN IF w1.threw THEN w1
            ELSE IF nextRow < NumRows(w1.sheetData)
            THEN IF ~InSheet(w1.sheetData, nextRow, start.col)
                 THEN missingCell(updateSelection(w1, Range(nextRow, start.col,
                                                              nextRow, start.col)),
                                  nextRow)
                 ELSE LET w2 == updateSelection(w1, Range(nextRow, start.col,
                                                          nextRow, start.col))
                          w3 == updateActiveCell(w2, Some(Pos(nextRow, start.col)))
                          w4 == positionInputAt(w3, nextRow, start.col)
                      IN [w4 EXCEPT !.input.value =
                                       ToText(CellAt(w1.sheetData, nextRow, start.col)),
                                    !.input.disabled = TRUE]
            ELSE w1

\* an undo that records the state it replaces
undoKeyRecording(w) ==
    LET popped == undoPop(w.historyStack)
        w1 == [w EXCEPT !.historyStack = popped.stack]
    IN IF IsSome(popped.restored)
       THEN dsUpdateCellValues(w1, 0, 0, Block(Get(popped.restored).cells), TRUE)
       ELSE w1

\* the undo branch of onKeyDown
undoKey(w) ==
    LET popped == undoPop(w.historyStack)
        w1 == [w EXCEPT !.historyStack = popped.stack]
    IN IF IsSome(popped.restored)
       THEN dsUpdateCellValues(w1, 0, 0, Block(Get(popped.restored).cells), FALSE)
       ELSE w1

\* a typing event: event.key.length === 1 with no ctrl, meta or alt
isTyping(ev) == Len(ev.key) = 1 /\ ~ev.ctrl /\ ~ev.alt

\* key.toLowerCase() for the accelerator letters
lowerKey(ev) ==
    IF ev.key = "Z" THEN "z" ELSE IF ev.key = "A" THEN "a"
    ELSE IF ev.key = "C" THEN "c" ELSE IF ev.key = "V" THEN "v" ELSE ev.key

\* an Escape that also closes the edit box
escapeKeyClosingEdit(w) ==
    [updateCopyHighlight(setMarchingAnts(w, FALSE), NoSelection)
        EXCEPT !.input.disabled = TRUE]

\* the Escape branch of onKeyDown
escapeKey(w) == updateCopyHighlight(setMarchingAnts(w, FALSE), NoSelection)

\* EventService.onKeyDown; ev.ctrl stands for ctrlKey || metaKey
onKeyDown(w, ev) ==
    IF ev.key = "Escape" THEN escapeKey(w)
    ELSE IF ev.ctrl /\ lowerKey(ev) = "z" THEN undoKey(w)
    ELSE IF ev.ctrl /\ lowerKey(ev) = "a"
    THEN requestRender(updateSelection(w,
             Range(0, 0, NumRows(w.sheetData) - 1, NumCols(w.sheetData) - 1)))
    ELSE IF ~IsSome(w.activeCell) THEN w
    ELSE IF ev.key = "Delete" /\ w.input.disabled
    THEN LET w1 == deleteFrom(w, Normalize(w.selection), 0)
         IN IF w1.threw THEN w1 ELSE emitSheetChanges(requestRender(w1))
    ELSE IF ev.ctrl /\ lowerKey(ev) = "c" THEN copySelection(w)
    ELSE IF ev.ctrl /\ lowerKey(ev) = "v" THEN pasteSelection(w)
    ELSE IF w.input.disabled
    THEN IF isTyping(ev)
         THEN [w EXCEPT !.input.disabled = FALSE, !.input.value = <<ev.key>>]
         ELSE IF ev.shift THEN handleShiftNavigation(w, ev)
         ELSE handleNavigation(w, ev)
    ELSE handleEditModeKeys(w, ev)

-----------------------------------------------------------------------------
(* Widget Shell (SheetComponent): the DOM listeners *)

\* (mousedown) on the canvas, then the document:mousedown listener
\* handleOutsideClick, which the event reaches by bubbling
canvasMouseDown(w, ev) ==
    LET w1 == requestRender(onMouseDown(w, ev))
    IN [w1 EXCEPT !.input.disabled = TRUE]

\* (mouseup) on the canvas, then the document:mouseup listener
canvasMouseUp(w) == handleMouseUp(requestRender(onMouseUp(w)))

\* a mouseup outside the canvas reaches the document listener only
documentMouseUp(w) == handleMouseUp(w)

\* (dblclick) on the canvas
onDblClick(w) == onDoubleClick(w)

\* document:keydown
handleKeyboardEvent(w, ev) ==
    LET w1 == onKeyDown(w, ev)
    IN IF w1.threw THEN w1 ELSE requestRender(w1)

\* a pointer event at a point of the canvas; the canvas sits at the origin
\* of the viewport, so client and offset coordinates coincide
PointerAt(p, buttons) ==
    [offsetX |-> p[1], offsetY |-> p[2], clientX |-> p[1], clientY |-> p[2],
     buttons |-> buttons]

Key(k) == [key |-> k, ctrl |-> FALSE, shift |-> FALSE, alt |-> FALSE]
Ctrl(k) == [key |-> k, ctrl |-> TRUE, shift |-> FALSE, alt |-> FALSE]
Shift(k) == [key |-> k, ctrl |-> FALSE, shift |-> TRUE, alt |-> FALSE]

-----------------------------------------------------------------------------
(* Events *)

LastN(seq, n) == IF Len(seq) <= n THEN seq ELSE SubSeq(seq, Len(seq) - n + 1, Len(seq))

\* An event is recorded with the state it arrived in.
Record(window, kind, arg) ==
    /\ events' = LastN(Append(events, [kind |-> kind, arg |-> arg, pre |-> Cur]), window)
    /\ steps' = steps + 1

\* the host calls DataService.updateCellValues
ApiUpdateCellValues(limit, window, Rows, Cols, Inputs) ==
    \E r \in Rows, c \in Cols, inp \in Inputs, recordUndo \in BOOLEAN :
        /\ steps < limit
        /\ Commit(dsUpdateCellValues(Cur, r, c, inp, recordUndo))
        /\ Record(window, "update",
                  [row |-> r, col |-> c, inp |-> inp, recordUndo |-> recordUndo])

KeyDown(limit, window, Keys) ==
    \E ev \in Keys :
        /\ steps < limit
        /\ Commit(handleKeyboardEvent(Cur, ev))
        /\ Record(window, "keydown", ev)

MouseDown(limit, window, Points) ==
    \E p \in Points :
        /\ steps < limit
        /\ Commit(canvasMouseDown(Cur, PointerAt(p, 1)))
        /\ Record(window, "mousedown", PointerAt(p, 1))

MouseMove(limit, window, Points, Buttons) ==
    \E p \in Points, b \in Buttons :
        /\ steps < limit
        /\ Commit(onMouseMove(Cur, PointerAt(p, b)))
        /\ Record(window, "mousemove", PointerAt(p, b))

MouseUp(limit, window) ==
    /\ steps < limit
    /\ Commit(canvasMouseUp(Cur))
    /\ Record(window, "mouseup", [onCanvas |-> TRUE])

DocumentMouseUp(limit, window) ==
    /\ steps < limit
    /\ Commit(documentMouseUp(Cur))
    /\ Record(window, "mouseup", [onCanvas |-> FALSE])

DoubleClick(limit, window) ==
    /\ steps < limit
    /\ Commit(onDblClick(Cur))
    /\ Record(window, "dblclick", <<>>)

\* The host settles one outstanding clipboard promise; any outstanding one
\* may settle next.  A write changes the clipboard when it resolves.
WriteResolve(limit, window) ==
    \E i \in 1..Len(pendingOps) :
        /\ steps < limit
        /\ pendingOps[i].op = "write"
        /\ Commit(copyWritten([Cur EXCEPT !.pendingOps = RemoveAt(@, i),
                                          !.clipboardText = pendingOps[i].data],
                              pendingOps[i].range))
        /\ Record(window, "writeResolve", [op |-> pendingOps[i]])

WriteReject(limit, window) ==
    \E i \in 1..Len(pendingOps) :
        /\ steps < limit
        /\ pendingOps[i].op = "write"
        /\ Commit([Cur EXCEPT !.pendingOps = RemoveAt(@, i)])
        /\ Record(window, "writeReject", [op |-> pendingOps[i]])

ReadResolve(limit, window) ==
    \E i \in 1..Len(pendingOps) :
        /\ steps < limit
        /\ pendingOps[i].op = "read"
        /\ Commit(pasteText([Cur EXCEPT !.pendingOps = RemoveAt(@, i)],
                            pendingOps[i].range, clipboardText))
        /\ Record(window, "readResolve", [op |-> pendingOps[i], text |-> clipboardText])

ReadReject(limit, window) ==
    \E i \in 1..Len(pendingOps) :
        /\ steps < limit
        /\ pendingOps[i].op = "read"
        /\ Commit([Cur EXCEPT !.pendingOps = RemoveAt(@, i)])
        /\ Record(window, "readReject", [op |-> pendingOps[i]])

\* minRenderInterval elapses since the last paint
TimePasses(limit, window) ==
    /\ steps < limit
    /\ sinceRender < minRenderInterval
    /\ Commit([Cur EXCEPT !.sinceRender = minRenderInterval])
    /\ Record(window, "time", <<>>)

\* gap ms pass
Wait(limit, window, Gaps) ==
    \E gap \in Gaps :
        /\ steps < limit
        /\ sinceRender < minRenderInterval
        /\ Commit([Cur EXCEPT !.sinceRender =
                      IF @ + gap > minRenderInterval THEN minRenderInterval
                      ELSE @ + gap])
        /\ Record(window, "wait", [gap |-> gap])

\* the animation-frame callback queued by requestRender
FrameCallback(limit, window) ==
    /\ steps < limit
    /\ shell.renderCallbacks > 0
    /\ Commit(performRender([Cur EXCEPT !.renderPending = FALSE,
                                        !.shell.renderCallbacks = @ - 1]))
    /\ Record(window, "frame", <<>>)

\* a service or the shell calls RenderService.requestRender()
RequestRender(limit, window) ==
    /\ steps < limit
    /\ Commit(requestRender(Cur))
    /\ Record(window, "requestRender", <<>>)

\* a service or the shell calls RenderService.markDirty()
MarkDirty(limit, window) ==
    /\ steps < limit
    /\ Commit(markDirty(Cur))
    /\ Record(window, "markDirty", <<>>)

\* StateService.reset()
reset(w) ==
    [w EXCEPT !.selection = Range(-1, -1, 0, 0),
              !.activeCell = None,
              !.input = [top |-> -1, left |-> -1, width |-> defaultCellWidth,
                         height |-> defaultCellHeight, value |-> <<>>,
                         disabled |-> TRUE],
              !.scrollPosition = [x |-> 0, y |-> 0],
              !.showMarchingAnts = FALSE,
              !.mouseMode = DEFAULT,
              !.resizeState = [resizingRowIndex |-> None,
                               resizingColumnIndex |-> None,
                               originalSize |-> None, startPointerPos |-> None]]

\* the host calls StateService.reset()
Reset(limit, window) ==
    /\ steps < limit
    /\ Commit(reset(Cur))
    /\ Record(window, "reset", <<>>)

\* a service calls StateService.setMarchingAnts(show)
SetMarchingAnts(limit, window) ==
    \E show \in BOOLEAN :
        /\ steps < limit
        /\ Commit(setMarchingAnts(Cur, show))
        /\ Record(window, "setMarchingAnts", [show |-> show])

\* AnimationService: FPS, the interval between dash advances in ms, and
\* the step of the dash offset
FPS == 10
frameInterval == 1000 \div FPS
dashOffsetIncrement == 1

\* the milliseconds that may lie between two frames of the host
FrameGaps == {50, 100, 150}

\* AnimationService's fields as constructed.  queued holds the ids of the
\* animate callbacks the host has not yet run; sinceFrameTime is the time
\* from lastFrameTime to the latest frame; sinceAdvance (the time since the
\* dash offset last advanced) and redraws (the redraw requests of the last
\* frame) observe the loop and are read by no handler.
InitialAnimation ==
    [animating |-> FALSE, frameId |-> 0, queued |-> {}, dashOffset |-> 0,
     previousShowMarchingAnts |-> FALSE, markDirtyFn |-> FALSE,
     sinceFrameTime |-> 0, sinceAdvance |-> None, redraws |-> 0]

\* window.requestAnimationFrame(animate): the host hands out an id that no
\* outstanding callback has
requestAnimationFrame(w) ==
    LET id == CHOOSE i \in 1..(Cardinality(w.animation.queued) + 1) :
                  i \notin w.animation.queued
    IN [w EXCEPT !.animation.queued = @ \cup {id}, !.animation.frameId = id]

\* startAnimation without its guard
startAnimationUnguarded(w) ==
    requestAnimationFrame([w EXCEPT !.animation.animating = TRUE,
                                    !.animation.sinceFrameTime = 0])

\* startAnimation(onFrame)
startAnimation(w) ==
    IF w.animation.animating THEN w
    ELSE requestAnimationFrame([w EXCEPT !.animation.animating = TRUE,
                                         !.animation.sinceFrameTime = 0])

\* stopAnimation, also called by ngOnDestroy
stopAnimation(w) ==
    LET w1 == [w EXCEPT !.animation.animating = FALSE]
    IN IF w1.animation.frameId # 0
       THEN [w1 EXCEPT !.animation.queued = @ \ {w1.animation.frameId},
                       !.animation.frameId = 0]
       ELSE w1

\* markDirtyFn(), or onFrame() (the shell's requestRender) when none is set
notifyFrame(w) ==
    LET w1 == [w EXCEPT !.animation.redraws = @ + 1]
    IN IF w1.animation.markDirtyFn THEN markDirty(w1) ELSE requestRender(w1)

\* animate(currentTime), the callback with the given id, run gap ms after
\* the previous frame
animate(w, id, gap) ==
    LET a == w.animation
        elapsed == a.sinceFrameTime + gap
        w0 == [w EXCEPT !.animation.queued = @ \ {id},
                        !.animation.redraws = 0,
                        !.animation.sinceFrameTime = elapsed,
                        !.animation.sinceAdvance =
                            IF IsSome(@) THEN Some(Get(@) + gap) ELSE @]
        currentShowMarchingAnts == w0.showMarchingAnts
        w1 == IF currentShowMarchingAnts /\ elapsed >= frameInterval
              THEN notifyFrame([w0 EXCEPT
                       !.animation.dashOffset = @ + dashOffsetIncrement,
                       !.animation.sinceAdvance = Some(0),
                       !.animation.sinceFrameTime = elapsed % frameInterval])
              ELSE w0
        w2 == IF currentShowMarchingAnts # w1.animation.previousShowMarchingAnts
              THEN [notifyFrame(w1) EXCEPT
                       !.animation.previousShowMarchingAnts = currentShowMarchingAnts]
              ELSE w1
    IN IF ~a.animating THEN w0 ELSE requestAnimationFrame(w2)

\* the host runs an outstanding animate callback
AnimationFrame(limit, window) ==
    \E id \in animation.queued, gap \in FrameGaps :
        /\ steps < limit
        /\ Commit(animate(Cur, id, gap))
        /\ Record(window, "animate", [id |-> id, gap |-> gap])

\* a holder of the AnimationService starts the loop
StartAnimation(limit, window) ==
    /\ steps < limit
    /\ Commit(startAnimation(Cur))
    /\ Record(window, "startAnimation", <<>>)

\* teardown: SheetComponent.ngOnDestroy or AnimationService.ngOnDestroy
StopAnimation(limit, window) ==
    /\ steps < limit
    /\ Commit(stopAnimation(Cur))
    /\ Record(window, "stopAnimation", <<>>)

-----------------------------------------------------------------------------
(* Cell: flags and derived styles *)

White == "white"
FocusBlue == "#d1e0ff"
HighlightRed == "#ffe0e0"
ReferenceGrey == "#e0e0e0"
ReadmeBlue == "#e6f7ff"

\* updateStyles
updateStyles(cell) ==
    IF cell.isFocused THEN [cell EXCEPT !.backgroundColor = FocusBlue]
    ELSE IF cell.isHighlighted THEN [cell EXCEPT !.backgroundColor = HighlightRed]
    ELSE IF cell.isReferenceCell
    THEN [cell EXCEPT !.backgroundColor = IF @ = White THEN ReferenceGrey ELSE @,
                      !.fontWeight = "bold"]
    ELSE [cell EXCEPT !.backgroundColor = White]

\* new CellStyles(): the config a Cell is constructed with by default
DefaultConfig ==
    [isFocused |-> FALSE, isHighlighted |-> FALSE, isReferenceCell |-> FALSE,
     backgroundColor |-> White, fontWeight |-> "normal"]

\* new Cell(value, config)
Cell(value, config) ==
    updateStyles([value |-> value,
                  isFocused |-> config.isFocused,
                  isHighlighted |-> config.isHighlighted,
                  isReferenceCell |-> config.isReferenceCell,
                  backgroundColor |-> config.backgroundColor,
                  fontWeight |-> config.fontWeight])

\* handleInput(newValue)
handleInput(cell, newValue) == updateStyles([cell EXCEPT !.value = newValue])

-----------------------------------------------------------------------------
(* Widget Shell (SheetComponent): lifecycle *)

\* addRowsAndColumns: every cell stamped with its row and column index
addRowsAndColumns(sheet) ==
    [r \in 1..Len(sheet.cells) |->
        [c \in 1..Len(sheet.cells[r]) |-> Some(Pos(r - 1, c - 1))]]

\* the cells of a Sheet as the host builds it: rowIndex / columnIndex unset
Unstamped(sheet) ==
    [r \in 1..Len(sheet.cells) |-> [c \in 1..Len(sheet.cells[r]) |-> None]]

\* DataService.sheetData before any value was set
NoSheet == [cells |-> <<>>, columns |-> <<>>, rows |-> <<>>, renderers |-> <<>>]

\* RenderService.initCanvasSize: sizes the canvas and draws the whole sheet
initCanvasSize(w) ==
    drawSheet(w, [left |-> 0, right |-> getAccumulatedWidth(w.sheetData.columns, NumCols(w.sheetData)),
                  top |-> 0, bottom |-> getAccumulatedHeight(w.sheetData.rows, NumRows(w.sheetData))])

\* ngOnChanges with a new Sheet object bound to the sheetData input
ngOnChanges(w, sheet) ==
    LET w1 == [w EXCEPT !.sheetData = sheet, !.shell.hasSheet = TRUE,
                        !.shell.stamps = Unstamped(sheet)]
    IN markDirty(initCanvasSize(w1))

\* ngAfterViewInit
ngAfterViewInit(w) ==
    IF ~w.shell.hasSheet THEN [w EXCEPT !.shell.viewInit = TRUE]
    ELSE LET w1 == [w EXCEPT !.shell.viewInit = TRUE,
                             !.shell.stamps = addRowsAndColumns(w.sheetData),
                             !.shell.canvasSet = TRUE]
             w2 == markDirty(initCanvasSize(w1))
         IN [startAnimation([w2 EXCEPT !.animation.markDirtyFn = TRUE])
               EXCEPT !.shell.subscribed = TRUE]

\* the host binds a new Sheet value
NgOnChanges(limit, window, Sheets) ==
    \E sheet \in Sheets :
        /\ steps < limit
        /\ sheet # sheetData
        /\ Commit(ngOnChanges(Cur, sheet))
        /\ Record(window, "ngOnChanges", <<>>)

\* Angular finishes initialising the view, once
NgAfterViewInit(limit, window) ==
    /\ steps < limit
    /\ ~shell.viewInit
    /\ Commit(ngAfterViewInit(Cur))
    /\ Record(window, "ngAfterViewInit", <<>>)

\* the host constructs a Cell
CellNew(limit, window, Values, Configs) ==
    \E v \in Values, config \in Configs :
        /\ steps < limit
        /\ Commit([Cur EXCEPT !.styledCell = Cell(v, config)])
        /\ Record(window, "cellNew", [value |-> v, config |-> config])

\* the host or the painter sets the cell's public flags
CellSetFlags(limit, window) ==
    \E f, h, r \in BOOLEAN :
        /\ steps < limit
        /\ <<f, h, r>> # <<styledCell.isFocused, styledCell.isHighlighted,
                          styledCell.isReferenceCell>>
        /\ Commit([Cur EXCEPT !.styledCell.isFocused = f,
                              !.styledCell.isHighlighted = h,
                              !.styledCell.isReferenceCell = r])
        /\ Record(window, "cellFlags", <<f, h, r>>)

\* the cell's value is mutated
CellHandleInput(limit, window, Values) ==
    \E v \in Values :
        /\ steps < limit
        /\ Commit([Cur EXCEPT !.styledCell = handleInput(styledCell, v)])
        /\ Record(window, "cellInput", v)

-----------------------------------------------------------------------------
(* Initial states: the widget attached to a sheet *)

Text1(ch) == <<ch>>

\* a sheet of plain cells with default sizes
PlainSheet(cells) ==
    [cells |-> cells,
     columns |-> [c \in 1..Len(cells[1]) |-> defaultCellWidth],
     rows |-> [r \in 1..Len(cells) |-> defaultCellHeight],
     renderers |-> [r \in 1..Len(cells) |-> [c \in 1..Len(cells[1]) |-> "none"]]]

\* ngAfterViewInit: the sheet is attached, the canvas painted once
AttachedWidget(sheet, clip) ==
    /\ sheetData = sheet
    /\ historyStack = <<>>
    /\ selection = InitialSelection
    /\ copyHighlight = InitialSelection
    /\ activeCell = None
    /\ input = InitialInput
    /\ scrollPosition = [x |-> 0, y |-> 0]
    /\ showMarchingAnts = FALSE
    /\ contextMenu = InitialContextMenu
    /\ mouseMode = DEFAULT
    /\ resizeState = InitialResizeState
    /\ dragFillState = InitialDragFillState
    /\ currentCursorStyle = "default"
    /\ buttonHitAreas = drawCells(sheet, [left |-> 0, right |-> ViewportWidth,
                                          top |-> 0, bottom |-> ViewportHeight])
    /\ dragHandleArea = None
    /\ hoverState = [point |-> None, cell |-> None]
    /\ isDirty = FALSE
    /\ renderPending = FALSE
    /\ sinceRender = 0
    /\ clipboardText = clip
    /\ pendingOps = <<>>
    /\ callbackRuns = 0
    /\ emitted = FALSE
    /\ threw = FALSE
    /\ painted = [cells |-> sheet.cells, selection |-> InitialSelection,
                  frameRendered |-> 0]
    /\ shell = [hasSheet |-> TRUE, viewInit |-> TRUE, canvasSet |-> TRUE,
                subscribed |-> TRUE, stamps |-> addRowsAndColumns(sheet),
                renderCallbacks |-> 0]
    /\ styledCell = Cell(Null, DefaultConfig)
    /\ animation = startAnimation([animation |-> [InitialAnimation EXCEPT
                                      !.markDirtyFn = TRUE]]).animation
    /\ events = <<>>
    /\ steps = 0

\* one SheetComponent alone on the page
Attached(sheet, clip) == AttachedWidget(sheet, clip) /\ sibling = None

-----------------------------------------------------------------------------
(* Mutation and undo *)

UndoPool == <<Null, Str(Text1("a")), Num(Text1("1")), Bool(<<"t", "r", "u", "e">>)>>

\* a 2 x 2 sheet whose cells cover the value types of the data model
UndoSheet(seed) ==
    PlainSheet([r \in 1..2 |-> [c \in 1..2 |->
                  UndoPool[((2 * (r - 1) + (c - 1) + seed) % Len(UndoPool)) + 1]]])

UndoInputs ==
    {Scalar(Str(Text1("x"))),
     Scalar(Num(Text1("2"))),
     Block(<< <<Str(Text1("x")), Null>> >>),
     Block(<< <<Str(Text1("x"))>>, <<Str(Text1("y"))>> >>)}

UndoKey == Ctrl("z")

InitUndo == \E seed \in 0..1 : Attached(UndoSheet(seed), <<>>)

NextUndo ==
    \/ ApiUpdateCellValues(MaxUndoSteps, 2, 0..1, 0..1, UndoInputs)
    \/ KeyDown(MaxUndoSteps, 2, {UndoKey})

SpecUndo == InitUndo /\ [][NextUndo]_vars

IsUndoKey(e) == e.kind = "keydown" /\ e.arg.ctrl /\ e.arg.key = "z"

DataModelTypes == {"string", "number", "boolean", "null"}

\* C1: when the undo accelerator is handled immediately after an
\* undo-recording updateCellValues applied to sheet S, every cell whose value
\* in S is a string, number, boolean or null has its value of S again.
CE_C1 ==
    (/\ Len(events) = 2
     /\ events[1].kind = "update" /\ events[1].arg.recordUndo
     /\ IsUndoKey(events[2]))
    => LET S == events[1].pre.sheetData
       IN \A r \in 1..Len(S.cells) : \A c \in 1..Len(S.cells[r]) :
            S.cells[r][c].type \in DataModelTypes
            => sheetData.cells[r][c] = S.cells[r][c]

-----------------------------------------------------------------------------
(* Clipboard round trip *)

\* the centre of cell (r, c) of a sheet of default-sized cells
Centre(r, c) ==
    <<c * defaultCellWidth + defaultCellWidth \div 2,
      r * defaultCellHeight + defaultCellHeight \div 2>>

\* a 2 x 2 sheet with a newline, a tab, and a quoted field with a comma
RoundSheet ==
    PlainSheet(<< <<Str(<<"a", NL, "b">>), Str(<<"c", TAB, "d">>)>>,
                  <<Str(<<QUOTE, "e", COMMA, "f", QUOTE>>), Str(Text1("g"))>> >>)

InitRound == Attached(RoundSheet, <<>>)

NextRound ==
    \/ MouseDown(MaxRoundSteps, 1, {Centre(0, 0), Centre(0, 1), Centre(1, 1)})
    \/ KeyDown(MaxRoundSteps, 1, {Ctrl("c"), Ctrl("v")})
    \/ WriteResolve(MaxRoundSteps, 1)
    \/ ReadResolve(MaxRoundSteps, 1)

SpecRound == InitRound /\ [][NextRound]_vars

RangeHeight(range) == range.end.row - range.start.row + 1
RangeWidth(range) == range.end.col - range.start.col + 1

\* the rectangular ranges of a sheet
RangesOf(sheet) ==
    {Range(r1, c1, r2, c2) :
        r1 \in 0..(NumRows(sheet) - 1), c1 \in 0..(NumCols(sheet) - 1),
        r2 \in 0..(NumRows(sheet) - 1), c2 \in 0..(NumCols(sheet) - 1)}

TabsAsSpaces(text) == [k \in 1..Len(text) |-> IF text[k] = TAB THEN SPACE ELSE text[k]]

\* C2: when a paste reads a clipboard text that is the copy of a source
\* range of the same dimensions as the destination, every destination cell
\* ends with the text of the corresponding source cell, tabs as spaces.
CE_C2 ==
    (Len(events) = 1 /\ events[1].kind = "readResolve")
    => LET e == events[1]
           S == e.pre.sheetData
           D == e.arg.op.range
       IN \A R \in RangesOf(S) :
            (/\ R.start.row <= R.end.row /\ R.start.col <= R.end.col
             /\ RangeHeight(R) = RangeHeight(D) /\ RangeWidth(R) = RangeWidth(D)
             /\ InSheet(S, D.end.row, D.end.col)
             /\ e.arg.text = copiedText(S, R))
            => \A i \in 0..(RangeHeight(D) - 1), j \in 0..(RangeWidth(D) - 1) :
                 ToText(CellAt(sheetData, D.start.row + i, D.start.col + j))
                   = TabsAsSpaces(ToText(CellAt(S, R.start.row + i, R.start.col + j)))

-----------------------------------------------------------------------------
(* Paste *)

ClipLetters == <<"a", "b", "c", "d">>

\* a 4 x 4 sheet of plain cells; cell (r, c) holds the two letters of its
\* row and column
ClipSheet ==
    PlainSheet([r \in 1..4 |-> [c \in 1..4 |-> Str(<<ClipLetters[r], ClipLetters[c]>>)]])

\* what another application left on the host clipboard: nothing, one
\* field, a 2 x 2 block, and a block whose second line is shorter
ClipTexts ==
    {<<>>,
     <<"x">>,
     <<"p", TAB, "q", NL, "r", TAB, "s">>,
     <<"p", TAB, "q", NL, "r">>}

InitClip == \E text \in ClipTexts : Attached(ClipSheet, text)

NextClip ==
    \/ MouseDown(MaxClipSteps, 1, {Centre(0, 0), Centre(3, 3)})
    \/ MouseMove(MaxClipSteps, 1, {Centre(1, 2)}, {1})
    \/ KeyDown(MaxClipSteps, 1, {Ctrl("a"), Ctrl("c"), Ctrl("v")})
    \/ WriteResolve(MaxClipSteps, 1)
    \/ WriteReject(MaxClipSteps, 1)
    \/ ReadResolve(MaxClipSteps, 1)
    \/ ReadReject(MaxClipSteps, 1)

SpecClip == InitClip /\ [][NextClip]_vars

\* the rectangle a paste of block into destination D covers
PastedHeight(block, D) ==
    IF RangeHeight(D) = 1 /\ RangeWidth(D) = 1 THEN Len(block) ELSE RangeHeight(D)

PastedWidth(block, D) ==
    IF RangeHeight(D) = 1 /\ RangeWidth(D) = 1
    THEN MaxOf({Len(block[k]) : k \in 1..Len(block)})
    ELSE RangeWidth(D)

\* C3: a paste of a parsed block of copyHeight x copyWidth into destination
\* D covers the block's dimensions when D is a single cell and D's
\* dimensions otherwise; the cell at offset (r, c) of that rectangle holds
\* block[r mod copyHeight][c mod copyWidth], every cell outside it is as
\* before, and the selection becomes the rectangle.
THM_C3 ==
    (/\ Len(events) = 1 /\ events[1].kind = "readResolve"
     /\ Len(events[1].arg.text) > 0)
    => LET e == events[1]
           S == e.pre.sheetData
           D == e.arg.op.range
           block == parseClipboard(e.arg.text)
           copyHeight == Len(block)
           copyWidth == MaxOf({Len(block[k]) : k \in 1..Len(block)})
           height == PastedHeight(block, D)
           width == PastedWidth(block, D)
           inside(r, c) == /\ r >= D.start.row /\ r < D.start.row + height
                           /\ c >= D.start.col /\ c < D.start.col + width
       IN /\ \A r \in 0..(NumRows(S) - 1), c \in 0..(NumCols(S) - 1) :
               IF inside(r, c)
               THEN LET line == block[((r - D.start.row) % copyHeight) + 1]
                        k == ((c - D.start.col) % copyWidth) + 1
                    IN k <= Len(line) => CellAt(sheetData, r, c) = Str(line[k])
               ELSE CellAt(sheetData, r, c) = CellAt(S, r, c)
          /\ D.start.row + height <= NumRows(S)
               => selection = Range(D.start.row, D.start.col,
                                    D.start.row + height - 1, D.start.col + width - 1)

\* a 2 x 2 block pasted over the whole 4 x 4 sheet: a 2 x 2 grid of copies
W_C3 ==
    /\ Len(events) = 1 /\ events[1].kind = "readResolve"
    /\ events[1].arg.text = <<"p", TAB, "q", NL, "r", TAB, "s">>
    /\ events[1].arg.op.range = Range(0, 0, 3, 3)
    /\ \A i \in {0, 2}, j \in {0, 2} :
         /\ CellAt(sheetData, i, j) = Str(<<"p">>)
         /\ CellAt(sheetData, i, j + 1) = Str(<<"q">>)
         /\ CellAt(sheetData, i + 1, j) = Str(<<"r">>)
         /\ CellAt(sheetData, i + 1, j + 1) = Str(<<"s">>)

\* a 1 x 1 block pasted into a 2 x 3 destination fills its six cells
SingleFillsSix ==
    /\ Len(events) = 1 /\ events[1].kind = "readResolve"
    /\ events[1].arg.text = <<"x">>
    /\ events[1].arg.op.range = Range(0, 0, 1, 2)
    /\ \A i \in 0..1, j \in 0..2 : CellAt(sheetData, i, j) = Str(<<"x">>)

\* C10: a paste never applies only partly: after the continuation of a
\* paste either no cell has changed and no snapshot was pushed, or the
\* paste completed (the selection is the pasted rectangle, the
\* copy-highlight and the marching ants are cleared, the change was
\* notified).
CE_C10 ==
    (Len(events) = 1 /\ events[1].kind = "readResolve")
    => LET e == events[1]
       IN \/ /\ sheetData = e.pre.sheetData
             /\ historyStack = e.pre.historyStack
          \/ /\ selection.start = e.arg.op.range.start
             /\ copyHighlight = NoSelection
             /\ ~showMarchingAnts
             /\ emitted

-----------------------------------------------------------------------------
(* Keyboard editing *)

\* a 3 x 2 sheet of plain cells
KeysSheet ==
    PlainSheet(<< <<Str(Text1("a")), Null>>,
                  <<Num(Text1("1")), Str(Text1("b"))>>,
                  <<Str(Text1("c")), Bool(<<"t", "r", "u", "e">>)>> >>)

KeysPoints == {Centre(r, c) : r \in 0..2, c \in 0..1}

KeysKeys ==
    {Key("7"), Key("Enter"), Key("Delete"), Key("ArrowDown"),
     Shift("ArrowRight"), Ctrl("a")}

InitKeys == Attached(KeysSheet, <<>>)

NextKeys ==
    \/ MouseDown(MaxKeySteps, 3, KeysPoints)
    \/ MouseMove(MaxKeySteps, 3, {Centre(1, 1)}, {1})
    \/ KeyDown(MaxKeySteps, 3, KeysKeys)

SpecKeys == InitKeys /\ [][NextKeys]_vars

\* a pointer-down that the router resolves to cell selection: the drag
\* handle is not hovered, no hit area with a callback is under the pointer,
\* and the cursor style is not a resize style
SelectsCell(e) ==
    /\ e.kind = "mousedown"
    /\ ~e.pre.dragFillState.isDragHandleHovered
    /\ e.pre.currentCursorStyle = "default"
    /\ \A i \in 1..Len(e.pre.buttonHitAreas) :
         ~inArea(e.pre.buttonHitAreas[i], e.arg.offsetX, e.arg.offsetY)

IsPrintable(e) ==
    /\ e.kind = "keydown" /\ Len(e.arg.key) = 1
    /\ ~e.arg.ctrl /\ ~e.arg.alt /\ ~e.arg.shift

IsEnter(e) == e.kind = "keydown" /\ e.arg = Key("Enter")

\* C6: pointer-down on a cell (r, c) that is not in the last row, then one
\* printable character k, then Enter: cell (r, c) holds k, the active cell
\* and a degenerate selection are at (r + 1, c), the edit box is disabled
\* and holds the text of (r + 1, c), no other cell changed, and the undo
\* stack has grown by exactly one snapshot, of the sheet before the commit.
THM_C6 ==
    (/\ Len(events) = 3
     /\ SelectsCell(events[1]) /\ IsPrintable(events[2]) /\ IsEnter(events[3]))
    => LET S == events[1].pre.sheetData
           k == events[2].arg.key
       IN \A r \in 0..(NumRows(S) - 2), c \in 0..(NumCols(S) - 1) :
            <<events[1].arg.offsetX, events[1].arg.offsetY>> = Centre(r, c)
            => /\ CellAt(sheetData, r, c) = Str(<<k>>)
               /\ \A r2 \in 0..(NumRows(S) - 1), c2 \in 0..(NumCols(S) - 1) :
                    <<r2, c2>> # <<r, c>>
                    => CellAt(sheetData, r2, c2) = CellAt(S, r2, c2)
               /\ activeCell = Some(Pos(r + 1, c))
               /\ selection = Range(r + 1, c, r + 1, c)
               /\ input.disabled
               /\ input.value = ToText(CellAt(S, r + 1, c))
               /\ Len(historyStack) = Len(events[1].pre.historyStack) + 1
               /\ historyStack[Len(historyStack)].cells = S.cells

\* select (0, 0), type "7", press Enter
W_C6 ==
    /\ Len(events) = 3
    /\ SelectsCell(events[1]) /\ IsPrintable(events[2]) /\ IsEnter(events[3])
    /\ <<events[1].arg.offsetX, events[1].arg.offsetY>> = Centre(0, 0)
    /\ CellAt(sheetData, 0, 0) = Str(<<"7">>)
    /\ activeCell = Some(Pos(1, 0))
    /\ input.disabled

IsDelete(e) == e.kind = "keydown" /\ e.arg.key = "Delete"

\* C7: Delete with an active cell.  Edit box disabled: every cell of the
\* normalized selection holds the empty string, every other cell is as
\* before, and the undo stack has grown by rows x columns of the selection.
\* Edit box enabled: the sheet and the undo stack are as before.
THM_C7 ==
    (/\ Len(events) > 0
     /\ IsDelete(events[Len(events)])
     /\ IsSome(events[Len(events)].pre.activeCell))
    => LET pre == events[Len(events)].pre
           n == Normalize(pre.selection)
       IN IF pre.input.disabled
          THEN /\ \A r \in 0..(NumRows(pre.sheetData) - 1),
                     c \in 0..(NumCols(pre.sheetData) - 1) :
                    IF /\ r >= n.start.row /\ r <= n.end.row
                       /\ c >= n.start.col /\ c <= n.end.col
                    THEN CellAt(sheetData, r, c) = Str(<<>>)
                    ELSE CellAt(sheetData, r, c) = CellAt(pre.sheetData, r, c)
               /\ Len(historyStack)
                    = Len(pre.historyStack) + RangeHeight(n) * RangeWidth(n)
          ELSE /\ sheetData = pre.sheetData
               /\ historyStack = pre.historyStack

\* select (0, 0)-(1, 1), press Delete while not editing
W_C7 ==
    /\ Len(events) > 0
    /\ IsDelete(events[Len(events)])
    /\ IsSome(events[Len(events)].pre.activeCell)
    /\ events[Len(events)].pre.input.disabled
    /\ events[Len(events)].pre.selection = Range(0, 0, 1, 1)
    /\ \A r \in 0..1, c \in 0..1 : CellAt(sheetData, r, c) = Str(<<>>)
    /\ Len(historyStack) = 4

\* Delete while the edit box is enabled
DeleteWhileEditing ==
    /\ Len(events) > 0
    /\ IsDelete(events[Len(events)])
    /\ IsSome(events[Len(events)].pre.activeCell)
    /\ ~events[Len(events)].pre.input.disabled

-----------------------------------------------------------------------------
(* Pointer-down priority and resizing *)

\* a 2 x 2 sheet whose second row holds a button without a click callback
\* and a button with one
ResizeSheet ==
    [PlainSheet(<< <<Str(Text1("a")), Str(Text1("b"))>>,
                   <<Str(Text1("c")), Str(Text1("d"))>> >>)
       EXCEPT !.renderers = << <<"none", "none">>, <<"label", "button">> >>]

\* on the right edge of column 0, inside the top header band
ColumnEdge == <<defaultCellWidth + 2, defaultCellHeight \div 2>>

\* on the bottom edge of row 0, inside the left header band
RowEdge == <<defaultCellWidth \div 5, defaultCellHeight + 2>>

\* where a drag from ColumnEdge gives column 0 the width resizeFloor + d
ColumnDragTo(d) == <<resizeFloor + d + 2, defaultCellHeight \div 2>>

\* where a drag from RowEdge gives row 0 the height resizeFloor + d
RowDragTo(d) == <<defaultCellWidth \div 5, resizeFloor + d + 2>>

InitResize == Attached(ResizeSheet, <<>>)

NextResize ==
    \/ MouseDown(MaxResizeSteps, 1,
                 {Centre(0, 0), Centre(1, 0), Centre(1, 1), ColumnEdge, RowEdge,
                  ColumnDragTo(0)})
    \/ MouseMove(MaxResizeSteps, 1,
                 {ColumnEdge, RowEdge, ColumnDragTo(0), ColumnDragTo(1),
                  RowDragTo(0), RowDragTo(1)}, {0, 1})
    \/ MouseUp(MaxResizeSteps, 1)
    \/ DocumentMouseUp(MaxResizeSteps, 1)

SpecResize == InitResize /\ [][NextResize]_vars

\* originalSize + (current pointer coordinate - startPointerPos)
ComputedSize(rs, coordinate) == Get(rs.originalSize) + (coordinate - Get(rs.startPointerPos))

\* C5: every column and row stays above 10 units; a pointer move in
\* RESIZING_COLUMN or RESIZING_ROW whose computed size is at or below 10
\* leaves every column width and row height as it was before the move.
THM_C5 ==
    /\ \A c \in 1..Len(sheetData.columns) : sheetData.columns[c] > 10
    /\ \A r \in 1..Len(sheetData.rows) : sheetData.rows[r] > 10
    /\ (Len(events) = 1 /\ events[1].kind = "mousemove")
       => LET pre == events[1].pre
              ev == events[1].arg
          IN /\ (/\ pre.mouseMode = RESIZING_COLUMN
                 /\ ComputedSize(pre.resizeState, ev.clientX) <= 10)
                => /\ sheetData.columns = pre.sheetData.columns
                   /\ sheetData.rows = pre.sheetData.rows
             /\ (/\ pre.mouseMode = RESIZING_ROW
                 /\ ComputedSize(pre.resizeState, ev.clientY) <= 10)
                => /\ sheetData.columns = pre.sheetData.columns
                   /\ sheetData.rows = pre.sheetData.rows

\* column 0 dragged from 50 units to exactly 10: the move is rejected
W_C5 ==
    /\ Len(events) = 1 /\ events[1].kind = "mousemove"
    /\ events[1].pre.mouseMode = RESIZING_COLUMN
    /\ ComputedSize(events[1].pre.resizeState, events[1].arg.clientX) = 10
    /\ sheetData.columns[1] = 50

\* the callback of the first registered hit area under the pointer
HitsCallback(e) ==
    \E i \in 1..Len(e.pre.buttonHitAreas) :
        /\ inArea(e.pre.buttonHitAreas[i], e.arg.offsetX, e.arg.offsetY)
        /\ e.pre.buttonHitAreas[i].onClick
        /\ \A j \in 1..(i - 1) :
             ~inArea(e.pre.buttonHitAreas[j], e.arg.offsetX, e.arg.offsetY)

\* C9: pointer-down resolves by the priority drag handle > hit area >
\* resize > selection.  Handle hovered: the mode is DRAG_FILL, no callback
\* ran, the selection is as before.  Else a hit area's callback under the
\* pointer: it ran once, and mode, resize transient, selection and active
\* cell are as before.  Else a resize cursor style: a resize has started.
\* Else: the router is selecting cells.
CE_C9 ==
    (Len(events) = 1 /\ events[1].kind = "mousedown")
    => LET e == events[1]
           pre == e.pre
       IN IF pre.dragFillState.isDragHandleHovered
          THEN /\ mouseMode = DRAG_FILL /\ callbackRuns = 0
               /\ selection = pre.selection
          ELSE IF HitsCallback(e)
          THEN /\ callbackRuns = 1
               /\ mouseMode = pre.mouseMode /\ resizeState = pre.resizeState
               /\ selection = pre.selection /\ activeCell = pre.activeCell
          ELSE IF pre.currentCursorStyle = "col-resize"
          THEN mouseMode = RESIZING_COLUMN /\ callbackRuns = 0
          ELSE IF pre.currentCursorStyle = "row-resize"
          THEN mouseMode = RESIZING_ROW /\ callbackRuns = 0
          ELSE mouseMode = SELECTING_CELLS /\ callbackRuns = 0

-----------------------------------------------------------------------------
(* Drag-fill and the pointer-up *)

\* a 4 x 2 sheet of plain cells
DragSheet ==
    PlainSheet(<< <<Str(Text1("a")), Str(Text1("e"))>>,
                  <<Str(Text1("b")), Str(Text1("f"))>>,
                  <<Str(Text1("c")), Str(Text1("g"))>>,
                  <<Str(Text1("d")), Str(Text1("h"))>> >>)

\* the centre of the drag handle painted for the selection (0, 0)-(0, 0)
HandleOfFirstCell == <<defaultCellWidth, defaultCellHeight>>

\* the host clipboard holds what another application left there
InitDrag == Attached(DragSheet, <<"z">>)

NextDrag ==
    \/ MouseDown(MaxDragSteps, 1, {Centre(0, 0), HandleOfFirstCell})
    \/ MouseMove(MaxDragSteps, 1, {Centre(3, 0), HandleOfFirstCell}, {0, 1})
    \/ MouseUp(MaxDragSteps, 1)
    \/ DocumentMouseUp(MaxDragSteps, 1)
    \/ FrameCallback(MaxDragSteps, 1)
    \/ TimePasses(MaxDragSteps, 1)
    \/ WriteResolve(MaxDragSteps, 1)
    \/ WriteReject(MaxDragSteps, 1)
    \/ ReadResolve(MaxDragSteps, 1)
    \/ ReadReject(MaxDragSteps, 1)

SpecDrag == InitDrag /\ [][NextDrag]_vars

\* C4: when the paste issued by a drag-fill has read the clipboard, every
\* cell of the preview range holds the original selection's texts, tiled.
CE_C4 ==
    (/\ Len(events) = 1 /\ events[1].kind = "readResolve"
     /\ IsSome(events[1].arg.op.fill))
    => LET D == events[1].arg.op.range
           original == Get(events[1].arg.op.fill)
       IN \A r \in D.start.row..D.end.row, c \in D.start.col..D.end.col :
            InSheet(sheetData, r, c)
            => ToText(CellAt(sheetData, r, c))
                 = original[((r - D.start.row) % Len(original)) + 1]
                           [((c - D.start.col) % Len(original[1])) + 1]

\* C8: a primary-button-up, over the canvas or only at document level,
\* that arrives in SELECTING_CELLS, RESIZING_COLUMN, RESIZING_ROW or
\* DRAG_FILL leaves the mode DEFAULT, and after DRAG_FILL the drag
\* transient is cleared.
CE_C8 ==
    (/\ Len(events) = 1 /\ events[1].kind = "mouseup"
     /\ events[1].pre.mouseMode # DEFAULT)
    => /\ mouseMode = DEFAULT
       /\ events[1].pre.mouseMode = DRAG_FILL
          => /\ ~dragFillState.isDragging
             /\ dragFillState.previewStart = None
             /\ dragFillState.previewEnd = None

-----------------------------------------------------------------------------
(* Updates that reach beyond the sheet *)

IsUpdate(e) == e.kind = "update"

\* the target rectangle of an update event: one cell for a scalar, the
\* input's height by its first row's width for a 2D input
TargetOf(e) ==
    IF e.arg.inp.kind = "block"
    THEN Range(e.arg.row, e.arg.col,
               e.arg.row + Len(e.arg.inp.rows) - 1,
               e.arg.col + Len(e.arg.inp.rows[1]) - 1)
    ELSE Range(e.arg.row, e.arg.col, e.arg.row, e.arg.col)

InRange(range, r, c) ==
    /\ r >= range.start.row /\ r <= range.end.row
    /\ c >= range.start.col /\ c <= range.end.col

ExtendsBeyond(sheet, range) ==
    \/ range.end.row >= NumRows(sheet)
    \/ range.end.col >= NumCols(sheet)

\* C11: an update whose target rectangle extends beyond the last row or the
\* last column writes every in-bounds target cell, leaves every other cell
\* alone, raises no error and emits the change notification.
CE_C11 ==
    (/\ Len(events) > 0
     /\ IsUpdate(events[Len(events)])
     /\ events[Len(events)].arg.inp.kind = "block"
     /\ ExtendsBeyond(events[Len(events)].pre.sheetData, TargetOf(events[Len(events)])))
    => LET e == events[Len(events)]
           T == TargetOf(e)
           S == e.pre.sheetData
       IN /\ ~threw
          /\ emitted
          /\ \A r \in 0..(NumRows(S) - 1), c \in 0..(NumCols(S) - 1) :
               CellAt(sheetData, r, c)
                 = IF InRange(T, r, c)
                   THEN blockCellValue(e.arg.inp, r - e.arg.row, c - e.arg.col)
                   ELSE CellAt(S, r, c)

\* C12: a call of updateCellValues that changed the live sheet has emitted
\* the change notification by the time it returns.
CE_C12 ==
    (/\ Len(events) > 0
     /\ IsUpdate(events[Len(events)])
     /\ sheetData.cells # events[Len(events)].pre.sheetData.cells)
    => emitted

-----------------------------------------------------------------------------
(* Layout *)

\* a 2 x 2 sheet with the given column widths and row heights
LayoutSheet(widths, heights) ==
    [PlainSheet(<< <<Str(Text1("a")), Str(Text1("b"))>>,
                   <<Str(Text1("c")), Str(Text1("d"))>> >>)
       EXCEPT !.columns = widths, !.rows = heights]

LayoutWidths == {<<50, 50>>, <<1, 7>>, <<7, 1>>, <<30, 2>>}
LayoutHeights == {<<20, 20>>, <<1, 3>>, <<9, 1>>}

\* the midpoint of the band of cell (r, c)
MidX(sheet, c) == getAccumulatedWidth(sheet.columns, c) + (sheet.columns[c + 1] \div 2)
MidY(sheet, r) == getAccumulatedHeight(sheet.rows, r) + (sheet.rows[r + 1] \div 2)

TotalWidth(sheet) == getAccumulatedWidth(sheet.columns, NumCols(sheet))
TotalHeight(sheet) == getAccumulatedHeight(sheet.rows, NumRows(sheet))

\* coordinates off the sheet on either side
OutsideX(sheet) == {-1, TotalWidth(sheet), TotalWidth(sheet) + 1}
OutsideY(sheet) == {-1, TotalHeight(sheet), TotalHeight(sheet) + 1}

\* the cell midpoints of the live sheet and points off the sheet
LayoutPoints ==
    {<<MidX(sheetData, c), MidY(sheetData, r)>> :
        r \in 0..(NumRows(sheetData) - 1), c \in 0..(NumCols(sheetData) - 1)}
    \cup {<<x, MidY(sheetData, 0)>> : x \in OutsideX(sheetData)}
    \cup {<<MidX(sheetData, 1), y>> : y \in OutsideY(sheetData)}

InitLayout ==
    \E widths \in LayoutWidths, heights \in LayoutHeights :
        Attached(LayoutSheet(widths, heights), <<>>)

NextLayout ==
    \/ MouseDown(MaxLayoutSteps, 1, LayoutPoints)
    \/ MouseMove(MaxLayoutSteps, 1, LayoutPoints, {0, 1})
    \/ MouseUp(MaxLayoutSteps, 1)

SpecLayout == InitLayout /\ [][NextLayout]_vars

\* a pointer-down that reaches the selection branch of onMouseDown
ReachesSelection(e) ==
    /\ e.kind = "mousedown"
    /\ ~e.pre.dragFillState.isDragHandleHovered
    /\ checkButtonHit(e.pre, e.arg.offsetX, e.arg.offsetY) = None
    /\ e.pre.currentCursorStyle = "default"

\* C13: accumulated offsets add up band by band; the midpoint of the band
\* of every cell (r, c) maps back to (r, c); a negative coordinate or one
\* beyond the total extent yields a negative index; and a pointer-down at
\* a cell's midpoint that reaches the selection branch selects that cell.
THM_C13 ==
    LET sheet == sheetData
        Rs == 0..(NumRows(sheet) - 1)
        Cs == 0..(NumCols(sheet) - 1)
    IN /\ \A c \in Cs : getAccumulatedWidth(sheet.columns, c) + sheet.columns[c + 1]
                          = getAccumulatedWidth(sheet.columns, c + 1)
       /\ \A r \in Rs : getAccumulatedHeight(sheet.rows, r) + sheet.rows[r + 1]
                          = getAccumulatedHeight(sheet.rows, r + 1)
       /\ \A r \in Rs, c \in Cs :
            getCellFromOffset(MidX(sheet, c), MidY(sheet, r), sheet)
              = [rowIndex |-> r, colIndex |-> c]
       /\ \A x \in OutsideX(sheet), r \in Rs :
            getCellFromOffset(x, MidY(sheet, r), sheet).colIndex < 0
       /\ \A y \in OutsideY(sheet), c \in Cs :
            getCellFromOffset(MidX(sheet, c), y, sheet).rowIndex < 0
       /\ (Len(events) = 1 /\ ReachesSelection(events[1]))
          => LET e == events[1]
                 S == e.pre.sheetData
             IN /\ \A r \in Rs, c \in Cs :
                     (e.arg.offsetX = MidX(S, c) /\ e.arg.offsetY = MidY(S, r))
                     => selection = Range(r, c, r, c)
                /\ (e.arg.offsetX \in OutsideX(S) \/ e.arg.offsetY \in OutsideY(S))
                   => selection = e.pre.selection

\* a pointer-down at the midpoint of cell (1, 1) of a sheet with unequal
\* bands has selected (1, 1)
W_C13 ==
    /\ Len(events) = 1 /\ ReachesSelection(events[1])
    /\ sheetData.columns = <<30, 2>> /\ sheetData.rows = <<9, 1>>
    /\ events[1].arg.offsetX = 31 /\ events[1].arg.offsetY = 9
    /\ selection = Range(1, 1, 1, 1)

\* a pointer-down beyond the right edge selects nothing
OutsidePress ==
    /\ Len(events) = 1 /\ ReachesSelection(events[1])
    /\ events[1].arg.offsetX = TotalWidth(sheetData)
    /\ selection = events[1].pre.selection
    /\ mouseMode = SELECTING_CELLS

-----------------------------------------------------------------------------
(* Paste of rows of unequal length *)

\* C14: a paste of a block whose rows differ in length is as wide as its
\* longest row, and a cell at column offset c of a row shorter than that
\* width holds row[c mod row.length].
CE_C14 ==
    (/\ Len(events) = 1 /\ events[1].kind = "readResolve"
     /\ Len(events[1].arg.text) > 0)
    => LET e == events[1]
           S == e.pre.sheetData
           D == e.arg.op.range
           block == parseClipboard(e.arg.text)
           copyHeight == Len(block)
           copyWidth == copyWidthOf(block)
           height == PastedHeight(block, D)
           width == PastedWidth(block, D)
       IN (/\ D.start.row + height <= NumRows(S)
           /\ D.start.col + width <= NumCols(S))
          => /\ (RangeHeight(D) = 1 /\ RangeWidth(D) = 1)
                => selection.end.col - selection.start.col + 1 = copyWidth
             /\ \A i \in 0..(height - 1), j \in 0..(width - 1) :
                  LET line == block[(i % copyHeight) + 1]
                  IN Len(line) < copyWidth
                     => CellAt(sheetData, D.start.row + i, D.start.col + j)
                          = Str(line[((j % copyWidth) % Len(line)) + 1])

-----------------------------------------------------------------------------
(* Auto-fill by double-click *)

\* the centre of the drag handle painted for the selection (0, 0)-(3, 0)
HandleOfFirstColumn == <<defaultCellWidth, 4 * defaultCellHeight>>

InitFill == Attached(DragSheet, <<>>)

NextFill ==
    \/ MouseDown(MaxFillSteps, 1, {Centre(0, 0)})
    \/ MouseMove(MaxFillSteps, 1,
                 {Centre(3, 0), Centre(1, 1), HandleOfFirstCell, HandleOfFirstColumn},
                 {0, 1})
    \/ MouseUp(MaxFillSteps, 1)
    \/ DoubleClick(MaxFillSteps, 1)
    \/ FrameCallback(MaxFillSteps, 1)
    \/ TimePasses(MaxFillSteps, 1)

SpecFill == InitFill /\ [][NextFill]_vars

\* C15: a double-click with the drag handle hovered and the normalized
\* selection ending above the last row fills every cell from the
\* selection's first row to the last row, in the selection's columns, with
\* the selection's values replicated downward, and selects that rectangle;
\* when the selection already reaches the last row, sheet, undo stack and
\* selection are as before.
CE_C15 ==
    (/\ Len(events) = 1 /\ events[1].kind = "dblclick"
     /\ events[1].pre.dragFillState.isDragHandleHovered)
    => LET pre == events[1].pre
           S == pre.sheetData
           n == Normalize(pre.selection)
           lastRow == NumRows(S) - 1
           height == n.end.row - n.start.row + 1
       IN IF n.end.row < lastRow
          THEN /\ selection = Range(n.start.row, n.start.col, lastRow, n.end.col)
               /\ \A r \in n.start.row..lastRow, c \in n.start.col..n.end.col :
                    CellAt(sheetData, r, c)
                      = CellAt(S, n.start.row + ((r - n.start.row) % height), c)
          ELSE /\ sheetData = S
               /\ historyStack = pre.historyStack
               /\ selection = pre.selection

-----------------------------------------------------------------------------
(* Lifecycle: binding a sheet *)

\* the component constructed, before any lifecycle hook has run
Constructed ==
    /\ sheetData = NoSheet
    /\ historyStack = <<>>
    /\ selection = InitialSelection
    /\ copyHighlight = InitialSelection
    /\ activeCell = None
    /\ input = InitialInput
    /\ scrollPosition = [x |-> 0, y |-> 0]
    /\ showMarchingAnts = FALSE
    /\ contextMenu = InitialContextMenu
    /\ mouseMode = DEFAULT
    /\ resizeState = InitialResizeState
    /\ dragFillState = InitialDragFillState
    /\ currentCursorStyle = "default"
    /\ buttonHitAreas = <<>>
    /\ dragHandleArea = None
    /\ hoverState = [point |-> None, cell |-> None]
    /\ isDirty = FALSE
    /\ renderPending = FALSE
    /\ sinceRender = minRenderInterval
    /\ clipboardText = <<>>
    /\ pendingOps = <<>>
    /\ callbackRuns = 0
    /\ emitted = FALSE
    /\ threw = FALSE
    /\ painted = [cells |-> <<>>, selection |-> InitialSelection,
                  frameRendered |-> 0]
    /\ shell = [hasSheet |-> FALSE, viewInit |-> FALSE, canvasSet |-> FALSE,
                subscribed |-> FALSE, stamps |-> <<>>, renderCallbacks |-> 0]
    /\ styledCell = Cell(Null, DefaultConfig)
    /\ animation = InitialAnimation
    /\ sibling = None
    /\ events = <<>>
    /\ steps = 0

\* the Sheet values the host binds
LifeSheets ==
    {PlainSheet(<< <<Str(Text1("a")), Str(Text1("b"))>> >>),
     PlainSheet(<< <<Str(Text1("c"))>>, <<Str(Text1("d"))>> >>),
     PlainSheet(<< <<Str(Text1("e"))>> >>)}

LifeInputs == {Scalar(Str(Text1("x"))), Scalar(Str(Text1("y")))}

InitLife == Constructed

NextLife ==
    \/ NgOnChanges(MaxLifeSteps, 1, LifeSheets)
    \/ NgAfterViewInit(MaxLifeSteps, 1)
    \/ ApiUpdateCellValues(MaxLifeSteps, 1, {0}, {0}, LifeInputs)
    \/ FrameCallback(MaxLifeSteps, 1)
    \/ TimePasses(MaxLifeSteps, 1)

SpecLife == InitLife /\ [][NextLife]_vars

IsBinding(e) == e.kind \in {"ngOnChanges", "ngAfterViewInit"}

\* C16: once the view is initialised, whenever the host has supplied a
\* Sheet value every cell of the live sheet carries its own row and column
\* index, and the new sheet is painted or its redraw is queued.
CE_C16 ==
    (/\ Len(events) = 1 /\ IsBinding(events[1])
     /\ shell.viewInit /\ shell.hasSheet)
    => /\ shell.stamps = addRowsAndColumns(sheetData)
       /\ painted.cells = sheetData.cells \/ renderPending

-----------------------------------------------------------------------------
(* Cell styles *)

CellValues == {Str(Text1("a")), Num(Text1("1"))}

\* every combination of flags, with the default or the README's background
CellConfigs ==
    {[DefaultConfig EXCEPT !.isFocused = f, !.isHighlighted = h,
                           !.isReferenceCell = r, !.backgroundColor = bg] :
        f \in BOOLEAN, h \in BOOLEAN, r \in BOOLEAN, bg \in {White, ReadmeBlue}}

InitCell == Attached(PlainSheet(<< <<Str(Text1("a"))>> >>), <<>>)

NextCell ==
    \/ CellNew(MaxCellSteps, 1, CellValues, CellConfigs)
    \/ CellSetFlags(MaxCellSteps, 1)
    \/ CellHandleInput(MaxCellSteps, 1, CellValues)

SpecCell == InitCell /\ [][NextCell]_vars

\* C17: a Cell constructed with a custom background color and with none of
\* the focused, highlighted and reference flags has that color after
\* construction.
CE_C17 ==
    (/\ Len(events) = 1 /\ events[1].kind = "cellNew"
     /\ ~events[1].arg.config.isFocused
     /\ ~events[1].arg.config.isHighlighted
     /\ ~events[1].arg.config.isReferenceCell)
    => styledCell.backgroundColor = events[1].arg.config.backgroundColor

\* the flags of a cell as a construction config with default styles
FlagsOf(cell) ==
    [DefaultConfig EXCEPT !.isFocused = cell.isFocused,
                          !.isHighlighted = cell.isHighlighted,
                          !.isReferenceCell = cell.isReferenceCell]

\* the backgrounds updateStyles itself assigns
DerivedColors == {White, FocusBlue, HighlightRed, ReferenceGrey}

\* C18: the background derived when a cell's value is mutated depends on
\* the cell's flags only: it equals the background of a newly built cell
\* with the same flags, whichever derived background the cell had before
\* (for example that of a focus flag since cleared), and deriving again
\* changes nothing.
CE_C18 ==
    (/\ Len(events) = 1 /\ events[1].kind = "cellInput"
     /\ events[1].pre.styledCell.backgroundColor \in DerivedColors)
    => /\ styledCell.backgroundColor
            = Cell(styledCell.value, FlagsOf(styledCell)).backgroundColor
       /\ updateStyles(styledCell) = styledCell

-----------------------------------------------------------------------------
(* Undo is one-directional *)

StackInputs ==
    {Scalar(Str(Text1("x"))),
     Block(<< <<Str(Text1("y"))>>, <<Null>> >>)}

InitStack == Attached(UndoSheet(0), <<>>)

NextStack ==
    \/ ApiUpdateCellValues(MaxStackSteps, 1, 0..1, {0}, StackInputs)
    \/ KeyDown(MaxStackSteps, 1, {UndoKey, Ctrl("Z")})

SpecStack == InitStack /\ [][NextStack]_vars

\* C19: an undo accelerator with a non-empty stack leaves the stack as it
\* was without its top snapshot (one popped, none pushed, the popped one
\* gone); with an empty stack it changes neither the sheet nor the stack
\* and emits no change notification.
THM_C19 ==
    (Len(events) > 0 /\ IsUndoKey(events[Len(events)]))
    => LET pre == events[Len(events)].pre
           depth == Len(pre.historyStack)
       IN IF depth > 0
          THEN /\ Len(historyStack) = depth - 1
               /\ historyStack = SubSeq(pre.historyStack, 1, depth - 1)
          ELSE /\ sheetData = pre.sheetData
               /\ historyStack = <<>>
               /\ ~emitted

\* an undo with two snapshots on the stack leaves the older one
W_C19 ==
    /\ Len(events) > 0 /\ IsUndoKey(events[Len(events)])
    /\ Len(events[Len(events)].pre.historyStack) = 2
    /\ historyStack = <<events[Len(events)].pre.historyStack[1]>>
    /\ emitted

\* an undo with nothing to undo
UndoOnEmptyStack ==
    /\ Len(events) > 0 /\ IsUndoKey(events[Len(events)])
    /\ events[Len(events)].pre.historyStack = <<>>
    /\ events[Len(events)].pre.sheetData # UndoSheet(0)
    /\ sheetData = events[Len(events)].pre.sheetData

-----------------------------------------------------------------------------
(* Selection changes and the painted frame *)

PaintKeys == {Ctrl("a"), Key("ArrowDown"), Shift("ArrowRight"), Ctrl("c")}

InitPaint == Attached(KeysSheet, <<>>)

NextPaint ==
    \/ MouseDown(MaxPaintSteps, 1, {Centre(0, 0), Centre(1, 1)})
    \/ MouseMove(MaxPaintSteps, 1, {Centre(0, 0), Centre(2, 1)}, {0, 1})
    \/ MouseUp(MaxPaintSteps, 1)
    \/ KeyDown(MaxPaintSteps, 1, PaintKeys)
    \/ WriteResolve(MaxPaintSteps, 1)
    \/ WriteReject(MaxPaintSteps, 1)
    \/ FrameCallback(MaxPaintSteps, 1)
    \/ AnimationFrame(MaxPaintSteps, 1)
    \/ TimePasses(MaxPaintSteps, 1)

SpecPaint == InitPaint /\ [][NextPaint]_vars

\* the last event was an input that changed the selection
SelectionChanged ==
    /\ Len(events) > 0
    /\ events[Len(events)].kind \in {"mousedown", "mousemove", "keydown"}
    /\ selection # events[Len(events)].pre.selection

\* a paint will happen without further input: a frame is queued, or the
\* animation loop will mark the renderer dirty on one of its next frames
PaintComing ==
    \/ renderPending
    \/ showMarchingAnts
    \/ showMarchingAnts # animation.previousShowMarchingAnts

\* C20: once an input (pointer-down, pointer-drag, select-all, arrow key)
\* has changed the selection, the canvas shows the new selection or a paint
\* of it is on its way without any further input.
CE_C20 ==
    SelectionChanged => (painted.selection = selection \/ PaintComing)

\* the select-all accelerator pressed on a freshly painted, clean canvas
SelectAllOnCleanCanvas ==
    /\ SelectionChanged
    /\ events[Len(events)].arg = Ctrl("a")
    /\ ~events[Len(events)].pre.isDirty
    /\ painted.selection # selection
    /\ ~isDirty /\ ~PaintComing

\* a drag onto another cell is painted: the hover change marks dirty
DragExtensionPainted ==
    /\ SelectionChanged
    /\ events[Len(events)].kind = "mousemove"
    /\ painted.selection = selection

-----------------------------------------------------------------------------
(* The animation loop *)

InitAnim == Attached(KeysSheet, <<>>)

NextAnim ==
    \/ MouseDown(MaxAnimSteps, 1, {Centre(0, 0)})
    \/ KeyDown(MaxAnimSteps, 1, {Ctrl("c"), Key("Escape")})
    \/ WriteResolve(MaxAnimSteps, 1)
    \/ AnimationFrame(MaxAnimSteps, 1)
    \/ StartAnimation(MaxAnimSteps, 1)
    \/ StopAnimation(MaxAnimSteps, 1)

SpecAnim == InitAnim /\ [][NextAnim]_vars

LastKind == IF Len(events) > 0 THEN events[Len(events)].kind ELSE "none"
LastPre == events[Len(events)].pre
LastArg == events[Len(events)].arg

\* C21: at most one animate callback is outstanding, and none while the
\* loop is stopped; starting a running loop changes nothing; stopping never
\* fails and leaves the loop stopped; while the loop is stopped no event
\* other than a start changes the dash offset or runs the driver.
THM_C21 ==
    /\ Cardinality(animation.queued) <= 1
    /\ (~animation.animating => animation.queued = {})
    /\ (LastKind = "startAnimation" /\ LastPre.animation.animating
            => animation = LastPre.animation)
    /\ (LastKind = "stopAnimation"
            => ~threw /\ ~animation.animating /\ animation.queued = {})
    /\ (LastKind \notin {"none", "startAnimation"} /\ ~LastPre.animation.animating
            => /\ animation.dashOffset = LastPre.animation.dashOffset
               /\ LastKind # "animate"
               /\ isDirty = LastPre.isDirty)

\* a start of the loop while it is running, after the dash has advanced
W_C21 ==
    /\ LastKind = "startAnimation"
    /\ LastPre.animation.animating
    /\ animation.dashOffset > 0
    /\ Cardinality(animation.queued) = 1

\* a stop of a loop that is already stopped
StopWhenStopped ==
    /\ LastKind = "stopAnimation"
    /\ ~LastPre.animation.animating

\* the dash offset moved on the last frame of the loop
Advanced ==
    /\ LastKind = "animate"
    /\ animation.dashOffset # LastPre.animation.dashOffset

\* C25: on a frame of the loop the dash offset advances, by the configured
\* step, only if the marching ants are shown and at least one interval has
\* passed since it last advanced, and an advance requests a redraw; a frame
\* on which the ants flag differs from its value at the previous frame
\* requests a redraw; with the ants off the dash offset does not change.
CE_C25 ==
    LastKind = "animate"
    => /\ Advanced =>
            /\ LastPre.showMarchingAnts
            /\ animation.dashOffset =
                   LastPre.animation.dashOffset + dashOffsetIncrement
            /\ animation.redraws >= 1
            /\ IsSome(LastPre.animation.sinceAdvance)
                   => Get(LastPre.animation.sinceAdvance) + LastArg.gap
                         >= frameInterval
       /\ (LastPre.showMarchingAnts # LastPre.animation.previousShowMarchingAnts
              => animation.redraws >= 1)
       /\ (~LastPre.showMarchingAnts
              => animation.dashOffset = LastPre.animation.dashOffset)

-----------------------------------------------------------------------------
(* The render scheduler *)

\* the milliseconds that may pass between two calls
RenderGaps == {1, 15, 16}

InitRender == Constructed \/ Attached(KeysSheet, <<>>)

NextRender ==
    \/ RequestRender(MaxRenderSteps, 1)
    \/ MarkDirty(MaxRenderSteps, 1)
    \/ FrameCallback(MaxRenderSteps, 1)
    \/ Wait(MaxRenderSteps, 1, RenderGaps)
    \/ SetMarchingAnts(MaxRenderSteps, 1)

SpecRender == InitRender /\ [][NextRender]_vars

\* the last event was a redraw request
IsRequest == LastKind \in {"requestRender", "markDirty"}

\* there was something to draw when the request reached requestRender
SomethingToDraw ==
    LastKind = "markDirty" \/ LastPre.isDirty \/ LastPre.showMarchingAnts

\* C22: at most one deferred frame callback is outstanding, and one is
\* outstanding exactly while the pending flag is set; a redraw request
\* made while one is pending schedules no other and paints nothing; the
\* pending flag is cleared by the callback and by nothing else.
THM_C22 ==
    /\ shell.renderCallbacks = (IF renderPending THEN 1 ELSE 0)
    /\ (IsRequest /\ LastPre.renderPending
            => /\ shell.renderCallbacks = 1
               /\ painted.frameRendered = 0
               /\ painted = LastPre.painted)
    /\ (LastKind = "frame" => ~renderPending)
    /\ (LastKind \notin {"none", "frame"} /\ LastPre.renderPending
            => renderPending)

\* a request that marks dirty while a frame is pending
W_C22 ==
    /\ LastKind = "markDirty"
    /\ LastPre.renderPending /\ ~LastPre.isDirty
    /\ isDirty /\ renderPending

\* C23: a redraw request made less than minRenderInterval after the last
\* frame paints nothing inside the call and, with something to draw, leaves
\* a frame callback pending; a request made at or after the interval with
\* something to draw, no frame pending and the canvas attached paints
\* inside the call; every frame rendered clears the dirty flag and records
\* its time.
THM_C23 ==
    /\ (IsRequest /\ LastPre.sinceRender < minRenderInterval
            => /\ painted.frameRendered = 0
               /\ SomethingToDraw => renderPending)
    /\ (IsRequest /\ LastPre.sinceRender >= minRenderInterval
                  /\ SomethingToDraw /\ ~LastPre.renderPending
                  /\ LastPre.shell.canvasSet
            => painted.frameRendered = 1 /\ ~renderPending)
    /\ (LastKind # "none" /\ painted.frameRendered > 0
            => ~isDirty /\ sinceRender = 0)

\* a request at exactly the interval paints inside the call
W_C23 ==
    /\ IsRequest
    /\ LastPre.sinceRender = minRenderInterval
    /\ LastPre.painted.cells # <<>>
    /\ painted.frameRendered = 1
    /\ sinceRender = 0

\* a request one millisecond short of the interval is deferred
DeferredJustBefore ==
    /\ IsRequest
    /\ LastPre.sinceRender = minRenderInterval - 1
    /\ ~LastPre.renderPending /\ renderPending

\* C24: with the dirty flag false and the marching ants off, neither a
\* direct request nor a deferred callback paints a frame; a request made
\* before the canvas is attached paints nothing and throws nothing.
THM_C24 ==
    /\ (LastKind \in {"requestRender", "frame"}
           /\ ~LastPre.isDirty /\ ~LastPre.showMarchingAnts
            => painted.frameRendered = 0 /\ painted = LastPre.painted)
    /\ (IsRequest /\ ~LastPre.shell.canvasSet
            => /\ painted.frameRendered = 0
               /\ painted = LastPre.painted
               /\ ~threw)

\* a deferred callback fires after the marching ants, its only reason, went
\* off
W_C24 ==
    /\ LastKind = "frame"
    /\ ~LastPre.isDirty /\ ~LastPre.showMarchingAnts
    /\ LastPre.shell.canvasSet
    /\ painted.frameRendered = 0

\* a request marks dirty before the canvas is attached
RequestBeforeAttach ==
    /\ LastKind = "markDirty"
    /\ ~LastPre.shell.canvasSet
    /\ isDirty

-----------------------------------------------------------------------------
(* Copy and paste: what they leave behind *)

IsNormalized(range) ==
    range.start.row <= range.end.row /\ range.start.col <= range.end.col

\* C26: a copy takes the normalized selection as its range and changes
\* nothing until its clipboard write settles; when the write succeeds the
\* copy-highlight is that range and the marching ants are on, while cells,
\* undo stack and selection stay as they were.
THM_C26 ==
    /\ (LastKind = "keydown" /\ LastArg = Ctrl("c")
           /\ Len(pendingOps) > Len(LastPre.pendingOps)
            => /\ pendingOps[Len(pendingOps)].range = Normalize(LastPre.selection)
               /\ copyHighlight = LastPre.copyHighlight
               /\ showMarchingAnts = LastPre.showMarchingAnts
               /\ sheetData = LastPre.sheetData
               /\ historyStack = LastPre.historyStack
               /\ selection = LastPre.selection)
    /\ (LastKind = "writeResolve"
            => /\ copyHighlight = LastArg.op.range
               /\ IsNormalized(copyHighlight)
               /\ showMarchingAnts
               /\ sheetData = LastPre.sheetData
               /\ historyStack = LastPre.historyStack
               /\ selection = LastPre.selection)

\* the write of a copy of a block dragged upwards succeeds after the
\* selection has moved elsewhere
W_C26 ==
    /\ LastKind = "writeResolve"
    /\ copyHighlight = Range(1, 2, 3, 3)
    /\ selection # copyHighlight
    /\ Normalize(selection) # copyHighlight
    /\ showMarchingAnts

\* a paste at the last column of what another application copied from two
\* cells of one row
InitEdge == Attached(ClipSheet, <<"p", TAB, "q">>)

NextEdge ==
    \/ MouseDown(MaxEdgeSteps, 1, {Centre(0, 0), Centre(0, 3)})
    \/ KeyDown(MaxEdgeSteps, 1, {Ctrl("c"), Ctrl("v")})
    \/ WriteResolve(MaxEdgeSteps, 1)
    \/ ReadResolve(MaxEdgeSteps, 1)
    \/ ReadReject(MaxEdgeSteps, 1)

SpecEdge == InitEdge /\ [][NextEdge]_vars

\* the last event was a paste that ran to its end
PasteSucceeded == LastKind = "readResolve" /\ emitted

\* the cells of the sheet that differ from what they were before the event
CellsChanged ==
    {rc \in (0..(NumRows(sheetData) - 1)) \X (0..(NumCols(sheetData) - 1)) :
        CellAt(sheetData, rc[1], rc[2]) # CellAt(LastPre.sheetData, rc[1], rc[2])}

\* C27: after a successful paste one more snapshot is on the undo stack,
\* the marching ants are off, the copy-highlight is the no-selection
\* sentinel, and the selection is the rectangle of cells that were
\* written: it starts where the paste started, lies within the sheet, and
\* no cell outside it has changed.
CE_C27 ==
    PasteSucceeded
    => /\ Len(historyStack) = Len(LastPre.historyStack) + 1
       /\ ~showMarchingAnts
       /\ copyHighlight = NoSelection
       /\ selection.start = LastArg.op.range.start
       /\ IsNormalized(selection)
       /\ InSheet(sheetData, selection.end.row, selection.end.col)
       /\ \A rc \in CellsChanged :
              /\ selection.start.row <= rc[1] /\ rc[1] <= selection.end.row
              /\ selection.start.col <= rc[2] /\ rc[2] <= selection.end.col

\* the same without the requirement that the selection lies within the sheet
PasteLeavesRest ==
    PasteSucceeded
    => /\ Len(historyStack) = Len(LastPre.historyStack) + 1
       /\ ~showMarchingAnts
       /\ copyHighlight = NoSelection
       /\ selection.start = LastArg.op.range.start
       /\ IsNormalized(selection)
       /\ \A rc \in CellsChanged :
              /\ selection.start.row <= rc[1] /\ rc[1] <= selection.end.row
              /\ selection.start.col <= rc[2] /\ rc[2] <= selection.end.col

-----------------------------------------------------------------------------
(* Resizing: the size follows the pointer *)

\* seq with its element at the 0-based index i replaced by v
WithSize(seq, i, v) == [seq EXCEPT ![i + 1] = v]

\* C28: the pointer-down that starts a resize captures the index, the
\* current size and the pointer coordinate; every accepted pointer move of
\* the resize gives the resized column or row the size originalSize +
\* (pointer coordinate - startPointerPos) and leaves every other size and
\* the captured values as they were.
THM_C28 ==
    /\ (LastKind = "mousedown" /\ LastPre.mouseMode = DEFAULT
           /\ mouseMode = RESIZING_COLUMN
            => /\ IsSome(resizeState.resizingColumnIndex)
               /\ resizeState.originalSize =
                      Some(LastPre.sheetData.columns[Get(resizeState.resizingColumnIndex) + 1])
               /\ resizeState.startPointerPos = Some(LastArg.clientX)
               /\ sheetData = LastPre.sheetData)
    /\ (LastKind = "mousedown" /\ LastPre.mouseMode = DEFAULT
           /\ mouseMode = RESIZING_ROW
            => /\ IsSome(resizeState.resizingRowIndex)
               /\ resizeState.originalSize =
                      Some(LastPre.sheetData.rows[Get(resizeState.resizingRowIndex) + 1])
               /\ resizeState.startPointerPos = Some(LastArg.clientY)
               /\ sheetData = LastPre.sheetData)
    /\ (LastKind = "mousemove" /\ LastPre.mouseMode = RESIZING_COLUMN
            => LET size == ComputedSize(LastPre.resizeState, LastArg.clientX)
               IN /\ resizeState = LastPre.resizeState
                  /\ sheetData.rows = LastPre.sheetData.rows
                  /\ size > 10 =>
                        sheetData.columns =
                          WithSize(LastPre.sheetData.columns,
                                   Get(LastPre.resizeState.resizingColumnIndex), size))
    /\ (LastKind = "mousemove" /\ LastPre.mouseMode = RESIZING_ROW
            => LET size == ComputedSize(LastPre.resizeState, LastArg.clientY)
               IN /\ resizeState = LastPre.resizeState
                  /\ sheetData.columns = LastPre.sheetData.columns
                  /\ size > 10 =>
                        sheetData.rows =
                          WithSize(LastPre.sheetData.rows,
                                   Get(LastPre.resizeState.resizingRowIndex), size))

\* the pointer comes back to where the column resize started: the column
\* has its original width again
W_C28 ==
    /\ LastKind = "mousemove"
    /\ LastPre.mouseMode = RESIZING_COLUMN
    /\ Some(LastArg.clientX) = resizeState.startPointerPos
    /\ LastPre.sheetData.columns[1] = resizeFloor + 1
    /\ sheetData.columns[1] = Get(resizeState.originalSize)

\* a row follows the pointer to a new height
RowFollowsPointer ==
    /\ LastKind = "mousemove"
    /\ LastPre.mouseMode = RESIZING_ROW
    /\ sheetData.rows[1] = resizeFloor + 1

\* C29: the button-up that ends a resize leaves the resize transient
\* empty, so that during a resize of one axis the transient names no index
\* of the other axis.
CE_C29 ==
    /\ (LastKind = "mouseup"
           /\ LastPre.mouseMode \in {RESIZING_COLUMN, RESIZING_ROW}
            => mouseMode = DEFAULT /\ resizeState = InitialResizeState)
    /\ (mouseMode = RESIZING_ROW => ~IsSome(resizeState.resizingColumnIndex))
    /\ (mouseMode = RESIZING_COLUMN => ~IsSome(resizeState.resizingRowIndex))

\* the button-up that ends a resize returns the router to DEFAULT
ResizeEndsInDefault ==
    (LastKind = "mouseup" /\ LastPre.mouseMode \in {RESIZING_COLUMN, RESIZING_ROW})
    => mouseMode = DEFAULT

-----------------------------------------------------------------------------
(* Reset of the Interaction State *)

InitReset == Attached(DragSheet, <<>>)

NextReset ==
    \/ MouseDown(MaxResetSteps, 1, {Centre(0, 0), HandleOfFirstCell})
    \/ MouseMove(MaxResetSteps, 1, {Centre(2, 1), HandleOfFirstCell}, {0, 1})
    \/ KeyDown(MaxResetSteps, 1, {Ctrl("c"), Key("x")})
    \/ WriteResolve(MaxResetSteps, 1)
    \/ Reset(MaxResetSteps, 1)

SpecReset == InitReset /\ [][NextReset]_vars

\* C30: after reset() every part of the Interaction State has its initial
\* value: selection, copy-highlight, active cell, edit box, scroll offset,
\* marching-ants flag, context menu, mouse mode, resize transient and
\* drag-fill transient.
CE_C30 ==
    LastKind = "reset"
    => /\ selection = InitialSelection
       /\ copyHighlight = InitialSelection
       /\ activeCell = None
       /\ input = InitialInput
       /\ scrollPosition = [x |-> 0, y |-> 0]
       /\ ~showMarchingAnts
       /\ contextMenu = InitialContextMenu
       /\ mouseMode = DEFAULT
       /\ resizeState = InitialResizeState
       /\ dragFillState = InitialDragFillState

\* the parts reset() does assign
ResetAssigned ==
    LastKind = "reset"
    => /\ selection = InitialSelection
       /\ activeCell = None
       /\ input = InitialInput
       /\ scrollPosition = [x |-> 0, y |-> 0]
       /\ ~showMarchingAnts
       /\ mouseMode = DEFAULT
       /\ resizeState = InitialResizeState

\* a reset after a successful copy keeps the copy-highlight
ResetKeepsCopyHighlight ==
    /\ LastKind = "reset"
    /\ LastPre.showMarchingAnts
    /\ copyHighlight = LastPre.copyHighlight
    /\ copyHighlight # InitialSelection

-----------------------------------------------------------------------------
(* Escape *)

InitEsc == Attached(KeysSheet, <<>>)

\* the whole run is kept in events
NextEsc ==
    \/ MouseDown(MaxEscSteps, MaxEscSteps, {Centre(0, 0), Centre(1, 1)})
    \/ KeyDown(MaxEscSteps, MaxEscSteps,
               {Key("7"), Ctrl("c"), Key("Escape"), Ctrl("Escape")})
    \/ WriteResolve(MaxEscSteps, MaxEscSteps)

SpecEsc == InitEsc /\ [][NextEsc]_vars

IsEscape(e) == e.kind = "keydown" /\ e.arg.key = "Escape"

\* C31: Escape, with or without an active cell and whatever modifier is
\* held, leaves the marching ants off and the copy-highlight at the
\* no-selection sentinel, and leaves cell values, undo stack, selection,
\* active cell, edit box and mouse mode as they were.
THM_C31 ==
    (LastKind = "keydown" /\ IsEscape(events[Len(events)]))
    => /\ ~showMarchingAnts
       /\ copyHighlight = NoSelection
       /\ sheetData = LastPre.sheetData
       /\ historyStack = LastPre.historyStack
       /\ selection = LastPre.selection
       /\ activeCell = LastPre.activeCell
       /\ input = LastPre.input
       /\ mouseMode = LastPre.mouseMode
       /\ pendingOps = LastPre.pendingOps

\* Escape with the marching ants on and the edit box open on the active cell
W_C31 ==
    /\ LastKind = "keydown" /\ IsEscape(events[Len(events)])
    /\ LastPre.showMarchingAnts
    /\ IsSome(LastPre.activeCell)
    /\ ~LastPre.input.disabled
    /\ ~input.disabled
    /\ ~showMarchingAnts

\* Escape with a modifier held and no active cell
EscapeWithoutActiveCell ==
    /\ LastKind = "keydown" /\ LastArg = Ctrl("Escape")
    /\ ~IsSome(LastPre.activeCell)
    /\ copyHighlight = NoSelection

\* a copy was invoked by the event e
InvokesCopy(e) ==
    /\ e.kind = "keydown" /\ e.arg.ctrl /\ e.arg.key = "c"
    /\ IsSome(e.pre.activeCell)

\* Escape has been handled and no copy has been invoked since
EscapedSinceCopy ==
    \E i \in 1..Len(events) :
        /\ IsEscape(events[i])
        /\ \A j \in (i + 1)..Len(events) : ~InvokesCopy(events[j])

\* C38: from an Escape until the next copy is invoked the marching ants
\* are off and the copy-highlight is the no-selection sentinel, also when
\* the clipboard write of an earlier copy settles in between.
CE_C38 ==
    EscapedSinceCopy => (~showMarchingAnts /\ copyHighlight = NoSelection)

\* the same, as long as no clipboard write was outstanding at the Escape
EscapeHoldsWithoutPendingWrite ==
    (\E i \in 1..Len(events) :
        /\ IsEscape(events[i])
        /\ events[i].pre.pendingOps = <<>>
        /\ \A j \in (i + 1)..Len(events) : ~InvokesCopy(events[j]))
    => (~showMarchingAnts /\ copyHighlight = NoSelection)

-----------------------------------------------------------------------------
(* The hit-area registry after a paint *)

\* the sheets the host binds: two renderers in row 1, or a button in cell
\* (0, 0) only
RegistrySheets ==
    {ResizeSheet,
     [ResizeSheet EXCEPT !.renderers = << <<"button", "none">>, <<"none", "none">> >>]}

InitRegistry == Attached(ResizeSheet, <<>>)

NextRegistry ==
    \/ NgOnChanges(MaxRegSteps, 1, RegistrySheets)
    \/ MarkDirty(MaxRegSteps, 1)
    \/ FrameCallback(MaxRegSteps, 1)
    \/ TimePasses(MaxRegSteps, 1)

SpecRegistry == InitRegistry /\ [][NextRegistry]_vars

\* the region initCanvasSize paints: the whole sheet
WholeSheet ==
    [left |-> 0,
     right |-> getAccumulatedWidth(sheetData.columns, NumCols(sheetData)),
     top |-> 0,
     bottom |-> getAccumulatedHeight(sheetData.rows, NumRows(sheetData))]

\* the last handler painted the sheet: a frame was rendered, or the canvas
\* was sized for a newly bound sheet
PaintedNow == painted.frameRendered > 0 \/ LastKind = "ngOnChanges"

\* C32: after a paint, by a rendered frame or by the sizing of the canvas,
\* the registry holds the hit areas of that paint and no others.
CE_C32 ==
    PaintedNow
    => buttonHitAreas =
          (IF painted.frameRendered > 0 THEN drawCells(sheetData, clipRegion(Cur))
           ELSE drawCells(sheetData, WholeSheet))

\* the same for rendered frames only
FramesRefillRegistry ==
    painted.frameRendered > 0
    => buttonHitAreas = drawCells(sheetData, clipRegion(Cur))

\* a sheet bound right after a frame: the registry still holds the areas of
\* the sheet bound before
RegistryKeepsOldAreas ==
    /\ LastKind = "ngOnChanges"
    /\ painted.frameRendered = 0
    /\ Len(buttonHitAreas) = Len(LastPre.buttonHitAreas)
                                + Len(drawCells(sheetData, WholeSheet))
    /\ Len(LastPre.buttonHitAreas) > 0

-----------------------------------------------------------------------------
(* Drag-fill without a drag *)

\* the drag-fill preview is still the selection the drag started from
DegeneratePreview(w) ==
    /\ w.dragFillState.previewStart = Some(w.selection.start)
    /\ w.dragFillState.previewEnd = Some(w.selection.end)

\* the paste op was issued by a drag-fill whose preview range has the size
\* of the selection it fills from
DegenerateFillOp(op) ==
    /\ op.op = "read" /\ IsSome(op.fill)
    /\ LET n == Normalize(op.range)
       IN /\ n.end.row - n.start.row + 1 = Len(Get(op.fill))
          /\ n.end.col - n.start.col + 1 = Len(Get(op.fill)[1])

\* C33: a button-up in DRAG_FILL whose preview range is still the original
\* selection starts no copy and no paste, changes no cell and pushes no
\* snapshot; and no paste of such a drag-fill later changes a cell or
\* pushes a snapshot.
CE_C33 ==
    /\ (LastKind = "mouseup" /\ LastArg.onCanvas
           /\ LastPre.mouseMode = DRAG_FILL /\ DegeneratePreview(LastPre)
            => /\ pendingOps = LastPre.pendingOps
               /\ sheetData = LastPre.sheetData
               /\ historyStack = LastPre.historyStack)
    /\ (LastKind = "readResolve" /\ DegenerateFillOp(LastArg.op)
            => /\ sheetData.cells = LastPre.sheetData.cells
               /\ historyStack = LastPre.historyStack)

\* press and release on the handle without moving: the paste it issued has
\* read the clipboard and pushed a snapshot
FillWithoutDragPushesSnapshot ==
    /\ LastKind = "readResolve" /\ DegenerateFillOp(LastArg.op)
    /\ LastArg.op.range = Range(0, 0, 0, 0)
    /\ Len(historyStack) = Len(LastPre.historyStack) + 1

\* press and release on the handle without moving: a copy and a paste are
\* outstanding
FillWithoutDragStartsPaste ==
    /\ LastKind = "mouseup" /\ LastPre.mouseMode = DRAG_FILL
    /\ DegeneratePreview(LastPre)
    /\ Len(pendingOps) = Len(LastPre.pendingOps) + 2


\* ------------------------------------------------------------------
\* The bounds of the selection
\* ------------------------------------------------------------------

\* a range whose start row is negative denotes "no selection"
DenotesNoSelection(range) == range.start.row < 0

\* both corners of the range are cells of the sheet
WithinSheet(sheet, range) ==
    /\ InSheet(sheet, range.start.row, range.start.col)
    /\ InSheet(sheet, range.end.row, range.end.col)

\* C34: the selection is either the no-selection sentinel or has its
\* start and its end both inside the sheet, whatever pointer, keyboard and
\* clipboard operations have run, a paste of a block larger than the
\* room between the destination cell and the last column included.
CE_C34 == DenotesNoSelection(selection) \/ WithinSheet(sheetData, selection)

\* a paste has left the end of the selection beyond the last column
SelectionPastLastColumn ==
    /\ PasteSucceeded
    /\ selection.end.col >= NumCols(sheetData)
    /\ WithinSheet(LastPre.sheetData, LastPre.selection)


\* ------------------------------------------------------------------
\* The active cell and the start of the selection
\* ------------------------------------------------------------------

MaxActiveSteps == 5

InitActive == Attached(KeysSheet, <<>>)

NextActive ==
    \/ MouseDown(MaxActiveSteps, 1, {Centre(1, 1), Centre(2, 0)})
    \/ KeyDown(MaxActiveSteps, 1,
               {Key("7"), Key("Enter"), Key("ArrowDown"), Ctrl("a")})

SpecActive == InitActive /\ [][NextActive]_vars

\* the cell a commit of the edit box writes to is the active cell
CommitTargetsActiveCell(w) ==
    IsSome(w.activeCell) => Get(w.activeCell) = w.selection.start

\* C35: whenever an active cell exists its position is the start of the
\* selection, so a commit of the edit box, which writes to the cell at
\* the start of the selection, writes to the active cell.
CE_C35 == CommitTargetsActiveCell(Cur)

\* Enter has committed the edit box into a cell other than the active one
CommitAwayFromActiveCell ==
    /\ LastKind = "keydown" /\ LastArg.key = "Enter"
    /\ ~CommitTargetsActiveCell(LastPre)
    /\ LET a == Get(LastPre.activeCell)
           t == LastPre.selection.start
       IN /\ CellAt(sheetData, a.row, a.col) = CellAt(LastPre.sheetData, a.row, a.col)
          /\ CellAt(sheetData, t.row, t.col) # CellAt(LastPre.sheetData, t.row, t.col)


\* ------------------------------------------------------------------
\* Two sheet components on one page
\* ------------------------------------------------------------------

MaxPageSteps == 4

\* the sheet bound to the second component
SiblingSheet ==
    PlainSheet(<< <<Str(Text1("x")), Str(Text1("y"))>>,
                  <<Null, Num(Text1("2"))>>,
                  <<Str(Text1("z")), Null>> >>)

\* a second component attached the same way to another sheet
SiblingOf(w, sheet) ==
    [w EXCEPT !.sheetData = sheet,
              !.buttonHitAreas = drawCells(sheet, [left |-> 0, right |-> ViewportWidth,
                                                   top |-> 0, bottom |-> ViewportHeight]),
              !.painted.cells = sheet.cells,
              !.shell.stamps = addRowsAndColumns(sheet)]

\* the second component's state as its handlers find it: its own
\* services, the one UndoRedoService of the root injector, the clipboard
SiblingCur ==
    [Get(sibling) EXCEPT !.historyStack = historyStack,
                         !.clipboardText = clipboardText,
                         !.painted.frameRendered = 0,
                         !.callbackRuns = 0, !.emitted = FALSE, !.threw = FALSE]

CommitSibling(s) ==
    /\ CommitWidget([Cur EXCEPT !.historyStack = s.historyStack,
                                !.clipboardText = s.clipboardText])
    /\ sibling' = Some(s)

SiblingKeyDown(limit, window, Keys) ==
    \E ev \in Keys :
        /\ steps < limit
        /\ IsSome(sibling)
        /\ CommitSibling(handleKeyboardEvent(SiblingCur, ev))
        /\ Record(window, "sibling.keydown", ev)

SiblingMouseDown(limit, window, Points) ==
    \E p \in Points :
        /\ steps < limit
        /\ IsSome(sibling)
        /\ CommitSibling(canvasMouseDown(SiblingCur, PointerAt(p, 1)))
        /\ Record(window, "sibling.mousedown", PointerAt(p, 1))

PageKeys == {Key("7"), Key("Delete"), Ctrl("z")}

InitPage ==
    /\ AttachedWidget(KeysSheet, <<>>)
    /\ sibling = Some(SiblingOf(Cur, SiblingSheet))

NextPage ==
    \/ MouseDown(MaxPageSteps, MaxPageSteps, {Centre(1, 1)})
    \/ KeyDown(MaxPageSteps, MaxPageSteps, PageKeys)
    \/ SiblingMouseDown(MaxPageSteps, MaxPageSteps, {Centre(0, 0)})
    \/ SiblingKeyDown(MaxPageSteps, MaxPageSteps, PageKeys)

SpecPage == InitPage /\ [][NextPage]_vars

\* the event was handled by the second component
IsSiblingEvent(e) == e.kind \in {"sibling.keydown", "sibling.mousedown"}

\* what the cells of a sheet read
Texts(sheet) ==
    [r \in 1..Len(sheet.cells) |->
        [c \in 1..Len(sheet.cells[r]) |-> sheet.cells[r][c].text]]

\* what the first component's sheet has read during the run
OwnTexts == {Texts(events[i].pre.sheetData) : i \in 1..Len(events)}

\* every event of the run was handled by the first component
NoSiblingEvent == \A i \in 1..Len(events) : ~IsSiblingEvent(events[i])

\* the last event was an undo in the first component that restored a sheet
OwnUndoRestored ==
    /\ LastKind = "keydown" /\ LastArg.ctrl /\ LastArg.key = "z"
    /\ Len(LastPre.historyStack) > 0

\* C36: with two sheet components alive, an event in the second neither
\* adds to nor consumes the undo history the first one undoes from, and
\* an undo in the first restores only a snapshot captured from its own
\* sheet: the cells read what they read at some earlier point of the run.
CE_C36 ==
    /\ (LastKind # "none" /\ IsSiblingEvent(events[Len(events)])
          => historyStack = LastPre.historyStack)
    /\ (OwnUndoRestored => Texts(sheetData) \in OwnTexts)

\* an undo in the first component has shown the second component's sheet
UndoShowsSiblingSheet ==
    /\ OwnUndoRestored
    /\ Texts(sheetData) = Texts(SiblingSheet)

\* without events in the second component an undo restores own cells
UndoAloneRestoresOwn ==
    OwnUndoRestored /\ NoSiblingEvent => Texts(sheetData) \in OwnTexts

\* the second component's edit has grown the first component's history
SiblingEditGrowsHistory ==
    /\ LastKind = "sibling.keydown"
    /\ Len(historyStack) = Len(LastPre.historyStack) + 1
    /\ sheetData = LastPre.sheetData


\* ------------------------------------------------------------------
\* The destination of a paste whose read is outstanding
\* ------------------------------------------------------------------

\* the rectangle a paste into the range writes, given the clipboard's text
PastedRectangle(range, text) ==
    LET block == parseClipboard(text)
    IN IF range.start = range.end
       THEN [start |-> range.start,
             end |-> Pos(range.start.row + Len(block) - 1,
                         range.start.col + copyWidthOf(block) - 1)]
       ELSE range

\* C37: a paste (Ctrl+V with an active cell) is recorded with the
\* normalized selection of the moment it is invoked, pointer events leave the outstanding reads as they are,
\* and when the read completes the cells written lie in the rectangle
\* that starts at the recorded range and the selection becomes that
\* rectangle, whatever was selected in between.
THM_C37 ==
    /\ (LastKind = "keydown" /\ LastArg.ctrl /\ LastArg.key = "v"
            /\ IsSome(LastPre.activeCell)
          => pendingOps = Append(LastPre.pendingOps,
                                 [op |-> "read", range |-> Normalize(LastPre.selection),
                                  fill |-> None]))
    /\ (LastKind \in {"mousedown", "mousemove"} => pendingOps = LastPre.pendingOps)
    /\ (PasteSucceeded
          => LET target == PastedRectangle(LastArg.op.range, LastArg.text)
             IN /\ selection = target
                /\ \A rc \in CellsChanged :
                       /\ target.start.row <= rc[1] /\ rc[1] <= target.end.row
                       /\ target.start.col <= rc[2] /\ rc[2] <= target.end.col)

\* a paste has completed after the selection moved away from its range
W_C37 ==
    /\ PasteSucceeded
    /\ LastArg.op.range # Normalize(LastPre.selection)
    /\ LastPre.selection.start # LastArg.op.range.start
    /\ selection.start = LastArg.op.range.start
    /\ CellsChanged # {}


\* ------------------------------------------------------------------
\* Change notifications
\* ------------------------------------------------------------------

\* the last handler changed a cell or the size of a row or a column
SheetChanged ==
    /\ LastKind # "none"
    /\ \/ sheetData.cells # LastPre.sheetData.cells
       \/ sheetData.columns # LastPre.sheetData.columns
       \/ sheetData.rows # LastPre.sheetData.rows

\* C39: a handler that has changed the live sheet, a cell value or the
\* size of a row or a column, each accepted resize motion included, has
\* called emitSheetChanges before it returned.
CE_C39 == SheetChanged => emitted

\* an accepted resize motion has changed a column's width without a notification
ResizeMotionUnannounced ==
    /\ LastKind = "mousemove"
    /\ LastPre.mouseMode = RESIZING_COLUMN
    /\ sheetData.columns # LastPre.sheetData.columns
    /\ ~emitted

\* the release that ends a resize gesture does not notify either
ResizeReleaseSilent ==
    LastKind = "mouseup"
      /\ LastPre.mouseMode \in {RESIZING_COLUMN, RESIZING_ROW}
    => ~emitted


\* ------------------------------------------------------------------
\* The geometry of the edit box
\* ------------------------------------------------------------------

\* the edit box lies at the active cell's accumulated offsets minus the scroll
BoxOverActiveCell(w) ==
    LET cell == Get(w.activeCell)
    IN /\ w.input.left = getAccumulatedWidth(w.sheetData.columns, cell.col)
                            - w.scrollPosition.x
       /\ w.input.top = getAccumulatedHeight(w.sheetData.rows, cell.row)
                            - w.scrollPosition.y

\* the last event was an accepted resize motion of the active cell's column
OwnColumnResized ==
    /\ LastKind = "mousemove" /\ LastPre.mouseMode = RESIZING_COLUMN
    /\ IsSome(activeCell)
    /\ LastPre.resizeState.resizingColumnIndex = Some(Get(activeCell).col)
    /\ sheetData.columns # LastPre.sheetData.columns

\* the last event was an accepted resize motion of the active cell's row
OwnRowResized ==
    /\ LastKind = "mousemove" /\ LastPre.mouseMode = RESIZING_ROW
    /\ IsSome(activeCell)
    /\ LastPre.resizeState.resizingRowIndex = Some(Get(activeCell).row)
    /\ sheetData.rows # LastPre.sheetData.rows

\* while the active cell's own column or row is resized the box is the new size less 4
BoxFollowsOwnResize ==
    /\ (OwnColumnResized
          => input.width = sheetData.columns[Get(activeCell).col + 1] - 4)
    /\ (OwnRowResized
          => input.height = sheetData.rows[Get(activeCell).row + 1] - 4)

\* C40: whenever an active cell exists the edit box's left and top are
\* the active cell's accumulated column and row offsets minus the scroll
\* offset, and while the active cell's own column or row is resized its
\* width or height is the new size minus 4, whatever selections and
\* resizes, of columns and rows before the active cell too, have happened.
CE_C40 ==
    /\ (IsSome(activeCell) => BoxOverActiveCell(Cur))
    /\ BoxFollowsOwnResize

\* a column before the active cell was resized and the edit box stayed behind
BoxLeftBehind ==
    /\ LastKind = "mousemove" /\ LastPre.mouseMode = RESIZING_COLUMN
    /\ IsSome(activeCell)
    /\ Get(LastPre.resizeState.resizingColumnIndex) < Get(activeCell).col
    /\ BoxOverActiveCell(LastPre)
    /\ input.left = LastPre.input.left
    /\ ~BoxOverActiveCell(Cur)

====
